---- MODULE Spec2Model ----
(***************************************************************************)
(* Model of the brewol autonomous engine (internal/engine/state.go): the   *)
(* run loop of the cycle worker, the control calls made from the UI        *)
(* thread, and the bounded update channel between them.                    *)
(***************************************************************************)
EXTENDS Naturals, Integers, Sequences, FiniteSets, TLC

\* ------------------------------------------------------------------ bounds
MaxPending == 1       \* updates left undelivered before the UI is scheduled (Spec)
MaxErrorCount == 4    \* cap on errorCount (guards the failing outcomes)
MaxCycleCount == 2    \* cap on cycleCount (guards the start of a cycle)
MaxToolCalls == 1     \* tool calls carried by one assistant message
MaxTurns == 1         \* BudgetManager max transcript turns (SetMaxTranscriptTurns)
MaxMessages == 5      \* cap on the conversation length (guards Observe)
MaxBusEmits == 103    \* updates emitted in SpecBus
MaxEvents == 2        \* cap on the recorded compaction events
MaxCalls == 3         \* tool calls of the assistant message in SpecTools
MaxLongLines == 102 \* lines of a long response body in SpecProducer
MaxLines == 3         \* lines of a response body in SpecStream
MaxPathLen == 7       \* characters of a path argument in SpecPath
MaxPriority == 3      \* priorities of the issues a scan reports
MaxCallers == 2       \* threads calling the task store
MaxAttempts == 1      \* attempts counted per task
MaxClock == 3         \* calls that read the clock (AddTask, UpdateTask)
MaxBudgetCalls == 3   \* SetNumCtx and UpdateMetrics calls on a BudgetManager
MaxTranscript == 5    \* messages of a transcript handed to the compactor
MaxMemoryLog == 6     \* OnCycleComplete calls and saves of a memory manager
MaxLogLines == 2      \* entries written to each file of a session log
MaxCloses == 3        \* Close calls on a session log
MaxNameLen == 4       \* parts of a model name
MaxLoads == 1         \* LoadInstructionsFromFile calls

\* ------------------------------------------------------- program constants
UpdatesCap == 100     \* make(chan CycleUpdate, 100)
ErrorThreshold == 3   \* if errorCount >= 3
MaxEventsKept == 100  \* BudgetManager.maxEvents
NumCtx == 8192        \* DefaultNumCtx
HighWatermarkPct == 80 \* DefaultHighWatermark = 0.80
StreamCap == 100      \* make(chan StreamChunk, 100)
DefaultNumCtx == 8192
DefaultHighWatermark == 80    \* 0.80, ratios are counted in hundredths
DefaultLowWatermark == 60     \* 0.60
DefaultReserveOutput == 2048
DefaultMaxTranscriptLen == 5

States == {"OBSERVING", "DECIDING", "EXECUTING", "VERIFYING", "COMMITTING",
           "RECOVERING", "TERMINATING"}

\* An error message is modelled by the set of classification substrings it
\* contains; the empty set is a message containing none of them.
ErrStrings == {{}, {"429"}}
NoError == {"<nil>"}

Goals == {"g1"}
Models == {"m1"}

\* Message.Thinking: empty, or a thinking trace
ThinkingTexts == {"", "trace"}

\* outcome of Registry.Execute for one tool call:
\*   "ok"    (result, nil), exit code 0
\*   "exit"  (result, nil), non-zero exit code, the result carries the output
\*   "error" (_, err): execution error
\*   "unknown" (nil, err): unknown tool name
ToolOutcomes == {"ok", "exit", "error", "unknown"}

VARIABLES
    pc,          \* position of the cycle worker (run / runCycle)
    ctxDone,     \* the context held by the worker (and by e.cancel) is cancelled
    err,         \* error returned by runCycle
    sleepFor,    \* duration (ms) of the time.Sleep the worker is in, else 0
    state, paused, errorCount, goal, speed, cycleCount,
    messages, backlog, model, testMode, maxCycles,
    updates,     \* buffered content of the update channel
    closeCount,  \* number of close(e.updates) executed
    received,    \* updates taken by the consumer (SpecBus)
    toolCalls,   \* tool calls of the current response
    toolIdx,     \* index of the next tool call to execute
    toolResults, \* number of collected tool results
    uiPc,        \* position of the UI thread inside compactContext
    msgs,        \* compactContext's local copy of the conversation (UI thread)
    opPc,        \* position of the goroutine running Rollback or Checkpoint
    crashed,     \* the process panicked (send on a closed channel)
    \* history variables
    stopCalled,  \* Stop has been called
    genericRun,  \* generic errors since the last successful cycle (saturates at 3)
    phaseLog,    \* steps performed by the current cycle, in order
    emitSeq,     \* number of updates emitted (SpecBus)
    \* BudgetManager
    compactionEvents, \* reasons of the recorded CompactionEvents, oldest first
    lastPromptTokens, \* BudgetManager.lastPromptTokens
    toolResultsMsg,   \* entries of the "Tool Results" message the cycle appended
    \* Client.ChatStream and the decide loop reading it (SpecStream)
    request,     \* messages of the request body sent to /api/chat
    respBody,    \* lines of the response body, in the order the server sent them
    scanPos,     \* number of lines the producer's scanner has returned
    spc,         \* position of the producer goroutine
    chunk,       \* the chunk the producer is about to send
    stream,      \* buffered content of the chunk channel
    streamClosed,\* the chunk channel has been closed
    sent,        \* chunks the producer has put on the channel, in order
    got,         \* chunks received by decide, in order
    fullResponse,\* decide's fullResponse
    lastMetrics, \* Client.lastMetrics
    cancelSeen,  \* the producer found the context cancelled (at its
                 \* per-line check, or through a failed read of the body)
    \* tools.resolvePath and the tool using its result (SpecPath)
    root,        \* Registry root: the workspace root, as given
    fsTool,      \* tool that was called
    candidate,   \* path argument of the call
    resolved,    \* result of resolvePath
    accessed,    \* paths handed to the filesystem
    ret,         \* what Execute returned: a non-nil result, a non-nil error
    \* TaskStore and its callers (SpecTasks)
    tasks,       \* TaskStore.tasks: the task of each id, or NoTask
    tasksFile,   \* content of tasks.json: the encoded tasks
    tpc,         \* position of each caller inside a mutator
    tsnap,       \* save's local slice of task pointers, per caller
    now,         \* the clock read by time.Now(), which every reading advances
    nextGen,     \* number of Task values allocated so far
    \* BudgetManager (SpecBudget)
    bm,          \* its config, lastPromptTokens and lastEvalTokens
    \* Compactor.CompactTranscript (SpecTranscript)
    ctArgs,      \* the arguments of the call: messages, keepSystemMsg
    ctRet,       \* what the call returned: messages, summary
    \* memory.Manager (SpecMemory)
    mm,          \* its config.UpdateInterval, cyclesSinceUpdate and memory
    mmFile,      \* content of working_memory.json
    mmLog,       \* the OnCycleComplete calls and the saves, in their order
    mmCall,      \* position and return value of the OnCycleComplete caller
    \* logs.Session (SpecSession)
    sess,        \* its three files (open, lines written), the last return value
    \* instructions Manager (SpecInstructions)
    im,          \* sessionPrompt, and the path and result of the last load
    \* LookupModelContextSize (SpecLookup)
    lookup       \* the model name passed and the size returned

vars == <<pc, ctxDone, err, sleepFor, state, paused, errorCount, goal, speed,
          cycleCount, messages, backlog, model, testMode, maxCycles, updates,
          closeCount, received, toolCalls, toolIdx, toolResults, uiPc, msgs, opPc,
          crashed, stopCalled, genericRun, phaseLog,
          emitSeq, compactionEvents, lastPromptTokens, toolResultsMsg, request,
          respBody,
          scanPos, spc, chunk, stream, streamClosed, sent, got, fullResponse,
          lastMetrics, cancelSeen, root, fsTool, candidate, resolved, accessed,
          ret, tasks, tasksFile, tpc, tsnap, now, nextGen, bm, ctArgs, ctRet, mm, mmFile, mmLog, mmCall, sess, im, lookup>>

uiVars == <<uiPc, msgs, opPc>>
busVars == <<received, emitSeq>>
cfgVars == <<testMode, maxCycles>>
budgetVars == <<compactionEvents, lastPromptTokens>>
streamVars == <<request, respBody, scanPos, spc, chunk, stream, streamClosed,
                sent, got, fullResponse, lastMetrics, cancelSeen>>
pathVars == <<root, fsTool, candidate, resolved, accessed, ret>>
\* what the run loop and the controls of the engine never touch
storeVars == <<tasks, tasksFile, tpc, tsnap, now, nextGen>>
\* the components that are used through their own operations
memVars == <<mm, mmFile, mmLog, mmCall>>
miscVars == <<sess, im, lookup>>
compVars == <<bm, ctArgs, ctRet, memVars, miscVars>>
libVars == <<storeVars, compVars>>
auxVars == <<streamVars, pathVars, libVars>>

\* ----------------------------------------------------------------- helpers
Upd(s, m) == [state |-> s, msg |-> m, seq |-> 0]

\* faulty variant of SendUpdate: a full buffer drops its oldest update instead
SendUpdateDropOldest(ch, u) ==
    IF Len(ch) < UpdatesCap THEN Append(ch, u) ELSE Append(Tail(ch), u)

\* sendUpdate: non-blocking send, the update is skipped when the buffer is full
SendUpdate(ch, u) == IF Len(ch) < UpdatesCap THEN Append(ch, u) ELSE ch

RECURSIVE SendAll(_, _)
SendAll(ch, us) ==
    IF us = <<>> THEN ch ELSE SendAll(SendUpdate(ch, Head(us)), Tail(us))

\* strings.Contains(errStr, "403") || ... || strings.Contains(errStr, "rate")
IsRateLimit(e) ==
    \/ "403" \in e
    \/ "429" \in e
    \/ "limit" \in e
    \/ "quota" \in e
    \/ "rate" \in e

\* ollama.Message: the role ("obs" and "tools" are the user messages carrying
\* an observation and the tool results, "asst" the assistant's) and the
\* Thinking field; ToolCalls is the number of tool calls the message carries,
\* which only the assistant messages of a response have
Msg(role, thinking) == [Role |-> role, Thinking |-> thinking, ToolCalls |-> 0]

\* the conversion ollama.Message -> ctxmgr.Message -> ollama.Message made by
\* compactContext and trimContext: Role and Content are copied
CopyRoleContent(m) == [i \in 1..Len(m) |-> Msg(m[i].Role, "")]

\* ChatStream's trimmedMessages: Role and (truncated) Content are copied, the
\* Thinking field is left out of the request
TrimmedMessages(m) == [i \in 1..Len(m) |-> Msg(m[i].Role, "")]

\* Chat's cleanMessages: Role, Content and ToolCalls are copied
CleanMessages(m) ==
    [i \in 1..Len(m) |-> [Msg(m[i].Role, "") EXCEPT !.ToolCalls = m[i].ToolCalls]]

\* A line of the response body: blank, not decodable ("bad"), or a
\* ChatResponse with its message.thinking, done and prompt_eval_count
Line(kind, thinking, done, tokens) ==
    [kind |-> kind, thinking |-> thinking, done |-> done, tokens |-> tokens]

\* StreamChunk: Error ("" = nil), the Response's Done and message.thinking,
\* Metrics (0 = nil), and the number of the body line it comes from
Chunk(error, done, thinking, metrics, n) ==
    [Error |-> error, Done |-> done, Thinking |-> thinking,
     Metrics |-> metrics, line |-> n]

NoChunk == Chunk("", FALSE, "", 0, 0)

\* the errors that report a cancellation: ctx.Err() itself, and the scanner
\* error wrapping the failed read of the body
CancelErrors == {"context canceled", "scanner error: context canceled"}

\* Compactor.CompactTranscript: keep the system message and the last
\* 2*maxTurns messages
CompactTranscript(m, keepSystemMsg) ==
    IF Len(m) = 0 THEN m
    ELSE LET keepSys == keepSystemMsg /\ m[1].Role = "system"
             startIdx == IF keepSys THEN 1 ELSE 0
             maxMessages == MaxTurns * 2 + startIdx
         IN IF Len(m) <= maxMessages THEN m
            ELSE (IF keepSys THEN <<m[1]>> ELSE <<>>)
                 \o SubSeq(m, Len(m) - maxMessages + startIdx + 1, Len(m))

\* Engine.rebuildSystemPrompt: replaces messages[0]
RebuildSystemPrompt(m) ==
    IF Len(m) > 0 THEN [m EXCEPT ![1] = Msg("system", "")]
    ELSE <<Msg("system", "")>>

\* the conversation written by Engine.compactContext
CompactedMessages(m) ==
    RebuildSystemPrompt(CopyRoleContent(CompactTranscript(m, TRUE)))

\* Engine.trimContext
TrimContext(m) ==
    IF Len(m) <= MaxTurns * 2 + 1 THEN m
    ELSE CopyRoleContent(CompactTranscript(m, TRUE))

\* int(float64(NumCtx) * HighWatermarkRatio)
HighWatermark == (NumCtx * HighWatermarkPct) \div 100

\* BudgetManager.NeedsCompaction
NeedsCompaction(promptTokens) == promptTokens >= HighWatermark

\* prompt_eval_count reported by the last chunk of a response: just below
\* the high watermark, or at it
PromptTokenCounts == {HighWatermark - 1, HighWatermark}

\* faulty variant of RecordCompaction: the event is recorded twice
RecordCompactionTwice(events, reason) == events \o <<reason, reason>>

\* BudgetManager.RecordCompaction: append, keep the last maxEvents events
RecordCompaction(events, reason) ==
    LET all == Append(events, reason)
    IN IF Len(all) > MaxEventsKept
       THEN SubSeq(all, Len(all) - MaxEventsKept + 1, Len(all)) ELSE all

\* position of the first item with a larger priority (stable insert = the
\* order sort.Slice yields for an item appended to a sorted backlog)
RECURSIVE InsertByPriority(_, _)
InsertByPriority(b, item) ==
    IF b = <<>> THEN <<item>>
    ELSE IF item.Priority < Head(b).Priority THEN <<item>> \o b
    ELSE <<Head(b)>> \o InsertByPriority(Tail(b), item)

\* Engine.addToBacklog
AddToBacklog(b, item) ==
    IF \E i \in 1..Len(b) : b[i].Description = item.Description THEN b
    ELSE InsertByPriority(b, item)

\* the worker leaves at most MaxPending updates undelivered before the UI runs
CanEmit == Len(updates) < MaxPending

\* the updates us are passed to sendUpdate, in order
Emit(us) == updates' = SendAll(updates, us)

NoEmit == UNCHANGED updates

\* ==================================================================== Init
Configs == {<<FALSE, 0>>, <<TRUE, 0>>, <<TRUE, MaxCycleCount>>}

\* the engine built by NewEngine, apart from its position and conversation
InitEngine ==
    /\ ctxDone = FALSE
    /\ err = NoError
    /\ sleepFor = 0
    /\ state = "OBSERVING"
    /\ paused = FALSE
    /\ goal \in {""} \cup Goals
    /\ speed = 0
    /\ cycleCount = 0
    /\ backlog = <<>>
    /\ model \in {""} \cup Models
    /\ \E c \in Configs : testMode = c[1] /\ maxCycles = c[2]
    /\ updates = <<>>
    /\ closeCount = 0
    /\ received = <<>>
    /\ toolIdx = 1
    /\ toolResults = <<>>
    /\ uiPc = "idle"
    /\ msgs = <<>>
    /\ opPc = "idle"
    /\ crashed = FALSE
    /\ stopCalled = FALSE
    /\ genericRun = 0
    /\ phaseLog = <<>>
    /\ emitSeq = 0
    /\ compactionEvents = <<>>
    /\ lastPromptTokens = 0
    /\ toolResultsMsg = <<>>

\* no chat request has been made
InitNoStream ==
    /\ request = <<>>
    /\ respBody = <<>>
    /\ scanPos = 0
    /\ spc = "none"
    /\ chunk = NoChunk
    /\ stream = <<>>
    /\ streamClosed = FALSE
    /\ sent = <<>>
    /\ got = <<>>
    /\ fullResponse = Msg("asst", "")
    /\ lastMetrics = 0
    /\ cancelSeen = FALSE

\* the pair (*ToolResult, error) returned by an Execute
Returned(result, error) == [result |-> result, err |-> error]

\* the task store
TaskIds == {"t1", "t2"}

Callers == 1..MaxCallers

\* TaskStatus
Statuses == {"pending", "in_progress", "completed", "failed", "skipped"}

\* the Status of the Task handed to AddTask ("" is the zero value)
AddStatuses == {"", "in_progress", "completed"}

\* Task: the allocation it is (gen), Status, UpdatedAt, CompletedAt (0 is
\* nil) and Attempts
Task(gen, status, updatedAt, completedAt, attempts) ==
    [gen |-> gen, status |-> status, updatedAt |-> updatedAt,
     completedAt |-> completedAt, attempts |-> attempts]

\* no entry in the map
NoTask == Task(0, "", 0, 0, 0)

\* json.MarshalIndent of the task slice: one object per task with its id;
\* the identity of the Task value is not part of the encoding
Encode(m) ==
    {[id |-> i, status |-> m[i].status, updatedAt |-> m[i].updatedAt,
      completedAt |-> m[i].completedAt, attempts |-> m[i].attempts] :
       i \in {j \in TaskIds : m[j] # NoTask}}

\* TaskStore.load: the objects of the file become new Task values, keyed
\* by their id
Load(f) ==
    [i \in TaskIds |->
       IF \E r \in f : r.id = i
       THEN LET r == CHOOSE r \in f : r.id = i
            IN Task(1, r.status, r.updatedAt, r.completedAt, r.attempts)
       ELSE NoTask]

\* NewTaskStore on a workspace without tasks.json
InitStore ==
    /\ tasks = [i \in TaskIds |-> NoTask]
    /\ tasksFile = {}
    /\ tpc = [c \in Callers |-> "idle"]
    /\ tsnap = [c \in Callers |-> [i \in TaskIds |-> NoTask]]
    /\ now = 1
    /\ nextGen = 0

\* BudgetConfig; the two ratios are float64 in the code and counted here in
\* hundredths (0.80 is 80)
BudgetConfig(numCtx, high, low, reserve, turns) ==
    [NumCtx |-> numCtx, HighWatermarkRatio |-> high, LowWatermarkRatio |-> low,
     ReserveOutputTokens |-> reserve, MaxTranscriptTurns |-> turns]

DefaultBudgetConfig ==
    BudgetConfig(DefaultNumCtx, DefaultHighWatermark, DefaultLowWatermark,
                 DefaultReserveOutput, DefaultMaxTranscriptLen)

\* NewBudgetManager: each field is tested in turn, the low ratio against the
\* high ratio that the test before it has left
NewBudgetManager(cfg) ==
    LET numCtx == IF cfg.NumCtx <= 0 THEN DefaultNumCtx ELSE cfg.NumCtx
        high == IF cfg.HighWatermarkRatio <= 0 \/ cfg.HighWatermarkRatio > 100
                THEN DefaultHighWatermark ELSE cfg.HighWatermarkRatio
        low == IF cfg.LowWatermarkRatio <= 0 \/ cfg.LowWatermarkRatio >= high
               THEN DefaultLowWatermark ELSE cfg.LowWatermarkRatio
        reserve == IF cfg.ReserveOutputTokens <= 0 THEN DefaultReserveOutput
                   ELSE cfg.ReserveOutputTokens
        turns == IF cfg.MaxTranscriptTurns <= 0 THEN DefaultMaxTranscriptLen
                 ELSE cfg.MaxTranscriptTurns
    IN [config |-> BudgetConfig(numCtx, high, low, reserve, turns),
        lastPromptTokens |-> 0, lastEvalTokens |-> 0, calls |-> 0]

\* ctxmgr.Message
CtxMessage(role, content) == [Role |-> role, Content |-> content]

\* no CompactTranscript call has been made
NoTranscriptCall ==
    /\ ctArgs = [messages |-> <<>>, keepSystemMsg |-> FALSE]
    /\ ctRet = [called |-> FALSE, messages |-> <<>>, summary |-> <<>>]

\* WorkingMemory: the fields the update triggers write
WorkingMemory(cycleNum, updateReason) ==
    [CycleCount |-> cycleNum, UpdateReason |-> updateReason]

\* memory.NewManager in a workspace without working_memory.json
NewManager(updateInterval) ==
    /\ mm = [UpdateInterval |-> updateInterval, cyclesSinceUpdate |-> 0,
             memory |-> WorkingMemory(0, "")]
    /\ mmFile = WorkingMemory(0, "")
    /\ mmLog = <<>>
    /\ mmCall = [pc |-> "idle", ret |-> FALSE]

\* the files of a session log
LogFiles == {"transcript", "toolLog", "thinkingLog"}

\* logs.NewSession: the three files are created and open
NewSession ==
    sess = [open |-> [f \in LogFiles |-> TRUE],
            lines |-> [f \in LogFiles |-> 0],
            ret |-> "none", closes |-> 0]

\* prompt.NewManager(appName, workspaceRoot, projectType): no session layer
NewInstructions(workspaceRoot) ==
    im = [workspaceRoot |-> workspaceRoot, sessionPrompt |-> <<>>,
          path |-> <<>>, ret |-> "none", calls |-> 0]

NoInstructions == NewInstructions(<<"/", "w">>)

\* no model name has been looked up
NoLookup == lookup = [called |-> FALSE, model |-> <<>>, size |-> 0]

\* a session log, an instruction manager and no lookup
InitNoMisc == NewSession /\ NoInstructions /\ NoLookup

\* no operation of these components is under way: the BudgetManager of the
\* defaults, the memory manager of the engine (UpdateInterval: 5)
InitNoComp ==
    /\ bm = NewBudgetManager(DefaultBudgetConfig)
    /\ NoTranscriptCall
    /\ NewManager(5)
    /\ InitNoMisc

\* the components used through their own operations are idle
InitNoLib == InitStore /\ InitNoComp

\* no tool has resolved a path
InitNoPath ==
    /\ root = <<"/", "w">>
    /\ fsTool = ""
    /\ candidate = <<>>
    /\ resolved = [called |-> FALSE, ok |-> FALSE, path |-> <<>>]
    /\ accessed = {}
    /\ ret = Returned(FALSE, FALSE)

Init ==
    /\ InitEngine
    /\ pc = "new"
    /\ errorCount = 0
    /\ toolCalls = 0
    /\ messages = <<>>
    /\ InitNoStream
    /\ InitNoLib
    /\ InitNoPath

\* ======================================================== the cycle worker
\* Engine.Start: ctx, e.cancel = context.WithCancel(ctx); go e.run(ctx)
Start ==
    /\ pc = "new"
    /\ pc' = "init"
    /\ ctxDone' = FALSE
    /\ UNCHANGED <<err, sleepFor, state, paused, errorCount, goal, speed,
                   cycleCount, messages, backlog, model, cfgVars, updates,
                   closeCount, toolCalls, toolIdx, toolResults, uiVars, crashed,
                   stopCalled, genericRun, phaseLog,
                   busVars, auxVars,
                   budgetVars, toolResultsMsg>>

\* Engine.initializeSession
InitializeSession ==
    /\ pc = "init" /\ ~crashed /\ CanEmit
    /\ Emit(<<Upd("OBSERVING", "Initializing")>>)
    /\ messages' = <<Msg("system", "")>>
    /\ pc' = "top"
    /\ UNCHANGED <<ctxDone, err, sleepFor, state, paused, errorCount, goal,
                   speed, cycleCount, backlog, model, cfgVars, closeCount,
                   toolCalls, toolIdx, toolResults, uiVars, crashed, stopCalled,
                   genericRun, phaseLog, busVars, auxVars,
                   budgetVars, toolResultsMsg>>

\* run: select { case <-ctx.Done(): ... return; default: }
LoopTop ==
    /\ pc = "top" /\ ~crashed
    /\ IF ctxDone
       THEN /\ CanEmit
            /\ Emit(<<Upd("TERMINATING", "ShuttingDown")>>)
            /\ pc' = "deferred"
       ELSE /\ NoEmit
            /\ pc' = "checkPaused"
    /\ UNCHANGED <<ctxDone, err, sleepFor, state, paused, errorCount, goal,
                   speed, cycleCount, messages, backlog, model, cfgVars,
                   closeCount, toolCalls, toolIdx, toolResults, uiVars, crashed,
                   stopCalled, genericRun, phaseLog, busVars, auxVars,
                   budgetVars, toolResultsMsg>>

\* faulty variant of CheckPaused: the paused flag is not consulted
CheckPausedIgnored ==
    /\ pc = "checkPaused" /\ ~crashed
    /\ pc' = "throttle"
    /\ sleepFor' = 0
    /\ UNCHANGED <<ctxDone, err, state, paused, errorCount, goal,
                   speed, cycleCount, messages, backlog, model, cfgVars, updates,
                   closeCount, toolCalls, toolIdx, toolResults, uiVars, crashed,
                   stopCalled, genericRun, phaseLog,
                   busVars, auxVars,
                   budgetVars, toolResultsMsg>>

\* run: if e.IsPaused() { time.Sleep(500ms); continue }
CheckPaused ==
    /\ pc = "checkPaused" /\ ~crashed
    /\ pc' = IF paused THEN "pauseSleep" ELSE "throttle"
    /\ sleepFor' = IF paused THEN 500 ELSE 0
    /\ UNCHANGED <<ctxDone, err, state, paused, errorCount, goal,
                   speed, cycleCount, messages, backlog, model, cfgVars, updates,
                   closeCount, toolCalls, toolIdx, toolResults, uiVars, crashed,
                   stopCalled, genericRun, phaseLog,
                   busVars, auxVars,
                   budgetVars, toolResultsMsg>>

\* run: if speed > 0 { time.Sleep(speed seconds) }
Throttle ==
    /\ pc = "throttle" /\ ~crashed
    /\ pc' = IF speed > 0 THEN "throttleSleep" ELSE "cycle"
    /\ sleepFor' = speed * 1000
    /\ UNCHANGED <<ctxDone, err, state, paused, errorCount, goal,
                   speed, cycleCount, messages, backlog, model, cfgVars, updates,
                   closeCount, toolCalls, toolIdx, toolResults, uiVars, crashed,
                   stopCalled, genericRun, phaseLog,
                   busVars, auxVars,
                   budgetVars, toolResultsMsg>>

\* the end of a time.Sleep of the run loop or of runCycle
WakeUp ==
    /\ pc \in {"pauseSleep", "throttleSleep", "backoffSleep", "waitSleep",
               "cycleSleep"}
    /\ ~crashed
    /\ pc' = CASE pc = "pauseSleep" -> "top"
               [] pc = "backoffSleep" -> "top"
               [] pc = "throttleSleep" -> "cycle"
               [] pc = "waitSleep" -> "success"
               [] pc = "cycleSleep" -> "success"
    /\ sleepFor' = 0
    /\ phaseLog' = IF pc \in {"waitSleep", "cycleSleep"} THEN <<>> ELSE phaseLog
    /\ toolResultsMsg' = IF pc = "cycleSleep" THEN <<>> ELSE toolResultsMsg
    /\ UNCHANGED <<ctxDone, err, state, paused, errorCount, goal,
                   speed, cycleCount, messages, backlog, model, cfgVars, updates,
                   closeCount, toolCalls, toolIdx, toolResults, uiVars, crashed,
                   stopCalled, genericRun, busVars, auxVars,
                   budgetVars>>

\* runCycle, up to the start of Observe: the goal / model wait
CycleStart ==
    /\ pc = "cycle" /\ ~crashed /\ CanEmit
    /\ cycleCount < MaxCycleCount
    /\ state' = "OBSERVING"
    /\ phaseLog' = <<>>
    /\ sleepFor' = IF goal = "" \/ model = "" THEN 2000 ELSE 0
    /\ IF goal = ""
       THEN /\ Emit(<<Upd("OBSERVING", "WaitingGoal")>>)
            /\ pc' = "waitSleep"
       ELSE IF model = ""
       THEN /\ Emit(<<Upd("OBSERVING", "NoModel")>>)
            /\ pc' = "waitSleep"
       ELSE /\ Emit(<<Upd("OBSERVING", "Goal")>>)
            /\ pc' = "observe"
    /\ UNCHANGED <<ctxDone, err, paused, errorCount, goal, speed,
                   cycleCount, messages, backlog, model, cfgVars, closeCount,
                   toolCalls, toolIdx, toolResults, uiVars, crashed, stopCalled,
                   genericRun, busVars, auxVars,
                   budgetVars, toolResultsMsg>>

\* runCycle, Phase 1: observe (never fails), append the observation, enter
\* Deciding
Observe ==
    /\ pc = "observe" /\ ~crashed /\ CanEmit
    /\ Len(messages) < MaxMessages
    /\ messages' = Append(messages, Msg("obs", ""))
    /\ state' = "DECIDING"
    /\ Emit(<<Upd("DECIDING", "Sending")>>)
    /\ phaseLog' = Append(phaseLog, "observe")
    /\ pc' = "decide"
    /\ UNCHANGED <<ctxDone, err, sleepFor, paused, errorCount, goal, speed,
                   cycleCount, backlog, model, cfgVars, closeCount,
                   toolCalls, toolIdx, toolResults, uiVars, crashed, stopCalled,
                   genericRun, busVars, auxVars,
                   budgetVars, toolResultsMsg>>

\* a failing outcome is explored while the counter is below its cap
MayFail == ctxDone \/ errorCount < MaxErrorCount

\* decide: e.client.ChatStream(ctx, e.messages, tools) sends the request; it
\* fails when the context is already cancelled or no model is selected
DecideSend ==
    /\ pc = "decide" /\ ~crashed
    /\ \/ /\ MayFail
          /\ \E e \in ErrStrings : err' = e
          /\ pc' = "handleErr"
          /\ phaseLog' = <<>>
       \/ /\ ~ctxDone /\ model # ""
          /\ err' = err
          /\ pc' = "streaming"
          /\ phaseLog' = Append(phaseLog, "decide")
    /\ UNCHANGED <<ctxDone, sleepFor, state, paused, errorCount, goal, speed,
                   cycleCount, messages, backlog, model, cfgVars, updates,
                   closeCount, toolCalls, toolIdx, toolResults, uiVars, crashed,
                   stopCalled, genericRun, busVars, auxVars,
                   budgetVars, toolResultsMsg>>

\* decide: one thinking or content chunk of the stream is forwarded to the UI
StreamChunk ==
    /\ pc = "streaming" /\ ~crashed /\ CanEmit
    /\ \E m \in {"Thinking", "Token"} :
          Emit(<<Upd("DECIDING", m)>>)
    /\ UNCHANGED <<pc, ctxDone, err, sleepFor, state, paused, errorCount, goal,
                   speed, cycleCount, messages, backlog, model, cfgVars,
                   closeCount, toolCalls, toolIdx, toolResults, uiVars, crashed,
                   stopCalled, genericRun, phaseLog, busVars, auxVars,
                   budgetVars, toolResultsMsg>>

\* the range loop of decide has ended: the chunk channel is closed and
\* drained (always so where the stream is not followed chunk by chunk)
StreamDrained == spc = "none" \/ (streamClosed /\ stream = <<>>)

\* decide: the stream ends (error chunk, or the last chunk); on success the
\* watermark check runs compactContext("high_watermark"), then runCycle emits
\* the response, appends the assistant message (the Message of the last
\* chunk, its Thinking field included) and enters Executing
DecideDone ==
    /\ pc = "streaming" /\ ~crashed
    /\ \/ /\ MayFail /\ spc = "none"
          /\ \E e \in ErrStrings : err' = e
          /\ pc' = "handleErr"
          /\ NoEmit
          /\ phaseLog' = <<>>
          /\ UNCHANGED <<state, messages, toolCalls, toolIdx, toolResults,
                         budgetVars>>
       \/ /\ CanEmit /\ StreamDrained
          /\ \E promptTokens \in (IF spc = "none" THEN PromptTokenCounts
                                  ELSE {lastPromptTokens}),
                n \in 0..MaxToolCalls :
               /\ NeedsCompaction(promptTokens) =>
                     Len(compactionEvents) < MaxEvents
               \* budgetMgr.UpdateMetrics on the last chunk
               /\ lastPromptTokens' = promptTokens
               /\ messages' = Append(IF NeedsCompaction(promptTokens)
                                     THEN CompactedMessages(messages)
                                     ELSE messages,
                                     [Msg("asst", fullResponse.Thinking)
                                         EXCEPT !.ToolCalls = n])
               /\ compactionEvents' =
                     IF NeedsCompaction(promptTokens)
                     THEN RecordCompaction(compactionEvents, "high_watermark")
                     ELSE compactionEvents
               /\ Emit((IF NeedsCompaction(promptTokens)
                        THEN <<Upd(state, "Compacted")>> ELSE <<>>)
                       \o <<Upd("DECIDING", "GotResponse"),
                            Upd("DECIDING", "Suggestions")>>)
               /\ phaseLog' = IF NeedsCompaction(promptTokens)
                              THEN Append(phaseLog, "compact") ELSE phaseLog
               /\ toolCalls' = n
          /\ toolIdx' = 1
          /\ toolResults' = <<>>
          /\ state' = "EXECUTING"
          /\ err' = err
          /\ pc' = "execute"
    /\ UNCHANGED <<ctxDone, sleepFor, paused, errorCount, goal, speed,
                   cycleCount, backlog, model, cfgVars, closeCount, uiVars,
                   crashed, stopCalled, genericRun, busVars, auxVars,
                   toolResultsMsg>>

\* the entry collected in toolResults for tool call number call: the error
\* text "Tool <name> failed: <err>" when Execute returned an error, else
\* "[<name>] <output>"
ToolEntry(call, outcome) == [call |-> call, out |-> outcome]

\* faulty variant of ExecTool: the newest result is put in front
ExecToolPrepend ==
    /\ pc = "execute" /\ ~crashed /\ CanEmit
    /\ toolIdx <= toolCalls
    /\ \E outcome \in ToolOutcomes :
          /\ Emit(<<Upd("EXECUTING", "ExecTool"),
                    Upd("EXECUTING", IF outcome \in {"error", "unknown"}
                                     THEN "ToolFailed" ELSE "ToolResult")>>)
          /\ toolResults' = <<ToolEntry(toolIdx, outcome)>> \o toolResults
    /\ toolIdx' = toolIdx + 1
    /\ phaseLog' = Append(phaseLog, "tool")
    /\ UNCHANGED <<pc, ctxDone, err, sleepFor, state, paused, errorCount, goal,
                   speed, cycleCount, messages, backlog, model, cfgVars,
                   closeCount, toolCalls, uiVars, crashed, stopCalled,
                   genericRun, busVars, auxVars,
                   budgetVars, toolResultsMsg>>

\* faulty variant of ExecTool: an error returned by Execute is returned by
\* runCycle
ExecToolFailsCycle ==
    /\ pc = "execute" /\ ~crashed /\ CanEmit
    /\ toolIdx <= toolCalls
    /\ \E outcome \in ToolOutcomes :
          /\ Emit(<<Upd("EXECUTING", "ExecTool"),
                    Upd("EXECUTING", IF outcome \in {"error", "unknown"}
                                     THEN "ToolFailed" ELSE "ToolResult")>>)
          /\ toolResults' = Append(toolResults, ToolEntry(toolIdx, outcome))
          /\ pc' = IF outcome \in {"error", "unknown"} THEN "handleErr" ELSE pc
          /\ err' = IF outcome \in {"error", "unknown"} THEN {} ELSE err
    /\ toolIdx' = toolIdx + 1
    /\ phaseLog' = Append(phaseLog, "tool")
    /\ UNCHANGED <<ctxDone, sleepFor, state, paused, errorCount, goal,
                   speed, cycleCount, messages, backlog, model, cfgVars,
                   closeCount, toolCalls, uiVars, crashed, stopCalled,
                   genericRun, busVars, auxVars,
                   budgetVars, toolResultsMsg>>

\* runCycle: one tool call of the response; a failure is reported and
\* collected like a result
ExecTool ==
    /\ pc = "execute" /\ ~crashed /\ CanEmit
    /\ toolIdx <= toolCalls
    /\ \E outcome \in ToolOutcomes :
          /\ Emit(<<Upd("EXECUTING", "ExecTool"),
                    Upd("EXECUTING", IF outcome \in {"error", "unknown"}
                                     THEN "ToolFailed" ELSE "ToolResult")>>)
          /\ toolResults' = Append(toolResults, ToolEntry(toolIdx, outcome))
    /\ toolIdx' = toolIdx + 1
    /\ phaseLog' = Append(phaseLog, "tool")
    /\ UNCHANGED <<pc, ctxDone, err, sleepFor, state, paused, errorCount, goal,
                   speed, cycleCount, messages, backlog, model, cfgVars,
                   closeCount, toolCalls, uiVars, crashed, stopCalled,
                   genericRun, busVars, auxVars,
                   budgetVars, toolResultsMsg>>

\* faulty variant of FinishCycle: the conversation is trimmed before the tool results
\* are appended
FinishCycleTrimFirst ==
    /\ pc = "execute" /\ ~crashed /\ CanEmit
    /\ toolIdx > toolCalls
    /\ LET trimmed == TrimContext(messages)
           hasResults == toolCalls > 0 /\ Len(toolResults) > 0
       IN /\ messages' = IF hasResults THEN Append(trimmed, Msg("tools", ""))
                                        ELSE trimmed
          /\ toolResultsMsg' = toolResults
          /\ phaseLog' = phaseLog
                \o (IF trimmed # messages THEN <<"trim">> ELSE <<>>)
                \o (IF hasResults THEN <<"results">> ELSE <<>>)
                \o <<"bookkeep">>
    /\ IF toolCalls > 0
       THEN NoEmit
       ELSE \/ NoEmit
            \/ Emit(<<Upd("EXECUTING", "TextOnly")>>)
    /\ pc' = "cycleSleep"
    /\ sleepFor' = 2000
    /\ toolCalls' = 0 /\ toolIdx' = 1 /\ toolResults' = <<>>
    /\ UNCHANGED <<ctxDone, err, state, paused, errorCount, goal,
                   speed, cycleCount, backlog, model, cfgVars, closeCount,
                   uiVars, crashed, stopCalled, genericRun, busVars, auxVars,
                   budgetVars>>

\* runCycle after the tool loop: append the tool results, trimContext, memory
\* bookkeeping, then the 2 s sleep
FinishCycle ==
    /\ pc = "execute" /\ ~crashed /\ CanEmit
    /\ toolIdx > toolCalls
    /\ LET withResults == IF toolCalls > 0 /\ Len(toolResults) > 0
                          THEN Append(messages, Msg("tools", "")) ELSE messages
       IN /\ messages' = TrimContext(withResults)
          /\ toolResultsMsg' = toolResults
          /\ phaseLog' = phaseLog
                \o (IF withResults # messages THEN <<"results">> ELSE <<>>)
                \o (IF TrimContext(withResults) # withResults
                    THEN <<"trim">> ELSE <<>>)
                \o <<"bookkeep">>
    /\ IF toolCalls > 0
       THEN NoEmit
       ELSE \/ NoEmit
            \/ Emit(<<Upd("EXECUTING", "TextOnly")>>)
    /\ pc' = "cycleSleep"
    /\ sleepFor' = 2000
    /\ toolCalls' = 0 /\ toolIdx' = 1 /\ toolResults' = <<>>
    /\ UNCHANGED <<ctxDone, err, state, paused, errorCount, goal,
                   speed, cycleCount, backlog, model, cfgVars, closeCount,
                   uiVars, crashed, stopCalled, genericRun, busVars, auxVars,
                   budgetVars>>

\* run: runCycle returned an error
HandleError ==
    /\ pc = "handleErr" /\ ~crashed /\ CanEmit
    /\ IF ctxDone
       THEN \* ctx.Err() != nil: fresh context, continue
            /\ ctxDone' = FALSE
            /\ errorCount' = 0
            /\ Emit(<<Upd("OBSERVING", "Cancelled")>>)
            /\ pc' = "top"
            /\ sleepFor' = 0
            /\ paused' = paused
            /\ genericRun' = 0
       ELSE /\ errorCount' = errorCount + 1
            /\ ctxDone' = ctxDone
            /\ IF IsRateLimit(err)
               THEN /\ Emit(<<Upd("RECOVERING", "RateLimited")>>)
                    /\ paused' = TRUE
                    /\ pc' = "top"
                    /\ sleepFor' = 0
                    /\ genericRun' = genericRun
               ELSE /\ genericRun' = IF genericRun < ErrorThreshold
                                     THEN genericRun + 1 ELSE genericRun
                    /\ IF errorCount' >= ErrorThreshold
                       THEN /\ Emit(<<Upd("RECOVERING", "TooManyErrors")>>)
                            /\ paused' = TRUE
                            /\ pc' = "top"
                            /\ sleepFor' = 0
                       ELSE /\ Emit(<<Upd("RECOVERING", "Retrying")>>)
                            /\ paused' = paused
                            /\ pc' = "backoffSleep"
                            /\ sleepFor' = errorCount' * errorCount' * 1000
    /\ err' = NoError
    /\ UNCHANGED <<state, goal, speed, cycleCount, messages, backlog,
                   model, cfgVars, closeCount, toolCalls, toolIdx, toolResults,
                   uiVars, crashed, stopCalled, phaseLog, busVars, auxVars,
                   budgetVars, toolResultsMsg>>

\* run: runCycle returned nil
Success ==
    /\ pc = "success" /\ ~crashed
    /\ errorCount' = 0
    /\ genericRun' = 0
    /\ cycleCount' = cycleCount + 1
    /\ IF testMode /\ cycleCount' >= maxCycles
       THEN /\ CanEmit
            /\ Emit(<<Upd("TERMINATING", "TestModeExit")>>)
            /\ pc' = "deferred"
       ELSE /\ NoEmit
            /\ pc' = "top"
    /\ UNCHANGED <<ctxDone, err, sleepFor, state, paused, goal, speed,
                   messages, backlog, model, cfgVars, closeCount, toolCalls,
                   toolIdx, toolResults, uiVars, crashed, stopCalled, phaseLog,
                   busVars, auxVars,
                   budgetVars, toolResultsMsg>>

\* run's deferred calls: memoryMgr.Close, session.Close, close(e.updates)
RunDeferred ==
    /\ pc = "deferred" /\ ~crashed
    /\ closeCount' = closeCount + 1
    /\ pc' = "exited"
    /\ UNCHANGED <<ctxDone, err, sleepFor, state, paused, errorCount, goal,
                   speed, cycleCount, messages, backlog, model, cfgVars, updates,
                   toolCalls, toolIdx, toolResults, uiVars, crashed, stopCalled,
                   genericRun, phaseLog, busVars, auxVars,
                   budgetVars, toolResultsMsg>>

\* =========================================================== the UI thread
UiReady == pc # "new" /\ ~crashed /\ uiPc = "idle"

\* faulty variant of Stop: Stop closes the update channel itself
StopClosing ==
    /\ UiReady
    /\ state' = "TERMINATING"
    /\ ctxDone' = TRUE
    /\ stopCalled' = TRUE
    /\ closeCount' = closeCount + 1
    /\ UNCHANGED <<pc, err, sleepFor, paused, errorCount, goal, speed,
                   cycleCount, messages, backlog, model, cfgVars, updates,
                   toolCalls, toolIdx, toolResults, uiVars, crashed,
                   genericRun, phaseLog, busVars, auxVars,
                   budgetVars, toolResultsMsg>>

\* Engine.Stop
Stop ==
    /\ UiReady
    /\ state' = "TERMINATING"
    /\ ctxDone' = TRUE
    /\ stopCalled' = TRUE
    /\ UNCHANGED <<pc, err, sleepFor, paused, errorCount, goal, speed,
                   cycleCount, messages, backlog, model, cfgVars, updates,
                   closeCount, toolCalls, toolIdx, toolResults, uiVars, crashed,
                   genericRun, phaseLog, busVars, auxVars,
                   budgetVars, toolResultsMsg>>

\* Engine.CancelCurrent
CancelCurrent ==
    /\ UiReady
    /\ ctxDone' = TRUE
    /\ UNCHANGED <<pc, err, sleepFor, state, paused, errorCount, goal, speed,
                   cycleCount, messages, backlog, model, cfgVars, updates,
                   closeCount, toolCalls, toolIdx, toolResults, uiVars, crashed,
                   stopCalled, genericRun, phaseLog, busVars, auxVars,
                   budgetVars, toolResultsMsg>>

\* faulty variant of SetGoal: the goal is set, nothing is inserted
SetGoalOnly ==
    /\ UiReady
    /\ \E g \in Goals : goal' = g
    /\ UNCHANGED <<pc, ctxDone, err, sleepFor, state, paused, errorCount, speed,
                   cycleCount, messages, model, cfgVars, updates, backlog,
                   closeCount, toolCalls, toolIdx, toolResults, uiVars, crashed,
                   stopCalled, genericRun, phaseLog, busVars, auxVars,
                   budgetVars, toolResultsMsg>>

\* Engine.SetGoal
SetGoal ==
    /\ UiReady
    /\ \E g \in Goals :
          /\ goal' = g
          /\ backlog' = AddToBacklog(backlog, [Description |-> g, Priority |-> 1])
    /\ UNCHANGED <<pc, ctxDone, err, sleepFor, state, paused, errorCount, speed, cycleCount, messages, model, cfgVars, updates,
                   closeCount, toolCalls, toolIdx, toolResults, uiVars, crashed,
                   stopCalled, genericRun, phaseLog,
                   busVars, auxVars,
                   budgetVars, toolResultsMsg>>

\* Client.SetModel, from the model picker
SetModel ==
    /\ UiReady
    /\ \E m \in Models : model' = m
    /\ UNCHANGED <<pc, ctxDone, err, sleepFor, state, paused, errorCount, goal,
                   speed, cycleCount, messages, backlog, cfgVars, updates,
                   closeCount, toolCalls, toolIdx, toolResults, uiVars, crashed,
                   stopCalled, genericRun, phaseLog,
                   busVars, auxVars,
                   budgetVars, toolResultsMsg>>

\* Engine.SetSpeed
SetSpeed ==
    /\ UiReady
    /\ \E n \in 0..1 : speed' = n
    /\ UNCHANGED <<pc, ctxDone, err, sleepFor, state, paused, errorCount, goal,
                   cycleCount, messages, backlog, model, cfgVars, updates,
                   closeCount, toolCalls, toolIdx, toolResults, uiVars, crashed,
                   stopCalled, genericRun, phaseLog,
                   busVars, auxVars,
                   budgetVars, toolResultsMsg>>

\* Engine.Pause
Pause ==
    /\ UiReady
    /\ paused' = TRUE
    /\ UNCHANGED <<pc, ctxDone, err, sleepFor, state, errorCount, goal, speed,
                   cycleCount, messages, backlog, model, cfgVars, updates,
                   closeCount, toolCalls, toolIdx, toolResults, uiVars, crashed,
                   stopCalled, genericRun, phaseLog,
                   busVars, auxVars,
                   budgetVars, toolResultsMsg>>

\* Engine.Resume
Resume ==
    /\ UiReady
    /\ paused' = FALSE
    /\ UNCHANGED <<pc, ctxDone, err, sleepFor, state, errorCount, goal, speed,
                   cycleCount, messages, backlog, model, cfgVars, updates,
                   closeCount, toolCalls, toolIdx, toolResults, uiVars, crashed,
                   stopCalled, genericRun, phaseLog,
                   busVars, auxVars,
                   budgetVars, toolResultsMsg>>

\* Engine.ForceCompact -> compactContext("forced"), lines 536-539: the
\* conversation is copied without the engine lock
ForceCompactRead ==
    /\ UiReady
    /\ pc # "init"
    /\ Len(compactionEvents) < MaxEvents
    /\ msgs' = messages
    /\ uiPc' = "compacting"
    /\ UNCHANGED <<opPc, pc, ctxDone, err, sleepFor, state, paused, errorCount, goal,
                   speed, cycleCount, messages, backlog, model, cfgVars, updates,
                   closeCount, toolCalls, toolIdx, toolResults, crashed,
                   stopCalled, genericRun, phaseLog, busVars, auxVars,
                   budgetVars, toolResultsMsg>>

\* compactContext("forced"), line 543: e.messages = make([]ollama.Message, 0, n)
ForceCompactClear ==
    /\ uiPc = "compacting" /\ ~crashed
    /\ messages' = <<>>
    /\ uiPc' = "cleared"
    /\ UNCHANGED <<opPc, pc, ctxDone, err, sleepFor, state, paused, errorCount, goal,
                   speed, cycleCount, backlog, model, cfgVars, updates,
                   closeCount, toolCalls, toolIdx, toolResults, msgs, crashed,
                   stopCalled, genericRun, phaseLog, busVars, auxVars,
                   budgetVars, toolResultsMsg>>

\* compactContext("forced"), lines 544-576: the compacted copy is appended to
\* e.messages, the system message is rebuilt, the event is recorded and the
\* update is sent (a send on the closed channel panics)
ForceCompactWrite ==
    /\ uiPc = "cleared" /\ ~crashed /\ CanEmit
    /\ messages' = RebuildSystemPrompt(
                       messages \o CopyRoleContent(CompactTranscript(msgs, TRUE)))
    /\ compactionEvents' = RecordCompaction(compactionEvents, "forced")
    /\ msgs' = <<>>
    /\ uiPc' = "idle"
    /\ IF closeCount > 0
       THEN crashed' = TRUE /\ updates' = updates
       ELSE crashed' = crashed
            /\ updates' = SendUpdate(updates, Upd(state, "Compacted"))
    /\ UNCHANGED <<opPc, pc, ctxDone, err, sleepFor, state, paused, errorCount, goal,
                   speed, cycleCount, backlog, model, cfgVars, closeCount,
                   toolCalls, toolIdx, toolResults, stopCalled, genericRun,
                   phaseLog, busVars, auxVars, lastPromptTokens,
                   toolResultsMsg>>

\* Engine.ResetMemory: memoryMgr.Reset(), then rebuildSystemPrompt (no lock)
ResetMemory ==
    /\ UiReady
    /\ pc # "init"
    /\ messages' = RebuildSystemPrompt(messages)
    /\ UNCHANGED <<pc, ctxDone, err, sleepFor, state, paused, errorCount, goal,
                   speed, cycleCount, backlog, model, cfgVars, updates,
                   closeCount, toolCalls, toolIdx, toolResults, uiVars, crashed,
                   stopCalled, genericRun, phaseLog, busVars, auxVars,
                   budgetVars, toolResultsMsg>>

\* sendUpdate from a goroutine that is not the worker: a send on the channel
\* that run has closed panics
SendOrPanic(u) ==
    IF closeCount > 0
    THEN crashed' = TRUE /\ updates' = updates
    ELSE crashed' = crashed /\ updates' = SendUpdate(updates, u)

\* what the Rollback and Checkpoint goroutines leave alone
opFrame == <<pc, ctxDone, err, sleepFor, state, paused, errorCount, goal,
             speed, cycleCount, messages, backlog, model, cfgVars,
             closeCount, toolCalls, toolIdx, toolResults, uiPc, msgs,
             stopCalled, genericRun, phaseLog, busVars, auxVars,
             budgetVars, toolResultsMsg>>

\* /rollback: go m.engine.Rollback(...) - the first update is sent and
\* git_status is called
RollbackStart ==
    /\ pc # "new" /\ ~crashed /\ CanEmit
    /\ opPc = "idle"
    /\ SendOrPanic(Upd("RECOVERING", "RollingBack"))
    /\ opPc' = "rbStatus"
    /\ UNCHANGED opFrame

\* Rollback: git_status returns; on an error Rollback returns, else
\* git_reset_hard is called
RollbackStatus ==
    /\ opPc = "rbStatus" /\ ~crashed
    /\ \E ok \in BOOLEAN : opPc' = IF ok THEN "rbReset" ELSE "idle"
    /\ UNCHANGED <<opFrame, updates, crashed>>

\* Rollback: git_reset_hard returns; on an error Rollback returns
RollbackReset ==
    /\ opPc = "rbReset" /\ ~crashed
    /\ \E ok \in BOOLEAN : opPc' = IF ok THEN "rbSend" ELSE "idle"
    /\ UNCHANGED <<opFrame, updates, crashed>>

\* Rollback: the second update is sent
RollbackSend ==
    /\ opPc = "rbSend" /\ ~crashed /\ CanEmit
    /\ SendOrPanic(Upd("RECOVERING", "RollbackComplete"))
    /\ opPc' = "idle"
    /\ UNCHANGED opFrame

\* /checkpoint: go m.engine.Checkpoint(...) - createCheckpoint in a git
\* repository calls git_commit
CheckpointStart ==
    /\ pc # "new" /\ ~crashed
    /\ opPc = "idle"
    /\ opPc' = "cpCommit"
    /\ UNCHANGED <<opFrame, updates, crashed>>

\* createCheckpoint: git_commit returns; on an error createCheckpoint returns
CheckpointCommit ==
    /\ opPc = "cpCommit" /\ ~crashed
    /\ \E ok \in BOOLEAN : opPc' = IF ok THEN "cpSend" ELSE "idle"
    /\ UNCHANGED <<opFrame, updates, crashed>>

\* createCheckpoint: the update is sent (and the checkpoint logged)
CheckpointSend ==
    /\ opPc = "cpSend" /\ ~crashed /\ CanEmit
    /\ SendOrPanic(Upd("COMMITTING", "Checkpoint"))
    /\ opPc' = "idle"
    /\ UNCHANGED opFrame

\* the UI's listenForUpdates: one receive from the update channel
Receive ==
    /\ updates # <<>>
    /\ ~crashed
    /\ updates' = Tail(updates)
    /\ UNCHANGED <<pc, ctxDone, err, sleepFor, state, paused, errorCount, goal,
                   speed, cycleCount, messages, backlog, model, cfgVars,
                   closeCount, toolCalls, toolIdx, toolResults, uiVars, crashed,
                   stopCalled, genericRun, phaseLog,
                   busVars, auxVars,
                   budgetVars, toolResultsMsg>>

Worker ==
    \/ Start \/ InitializeSession \/ LoopTop \/ CheckPaused \/ Throttle
    \/ WakeUp \/ CycleStart \/ Observe \/ DecideSend \/ StreamChunk
    \/ DecideDone \/ ExecTool \/ FinishCycle \/ HandleError \/ Success
    \/ RunDeferred

\* the controls of the UI thread that take the engine lock
Ui ==
    \/ Stop \/ CancelCurrent \/ SetGoal \/ SetModel \/ SetSpeed \/ Pause
    \/ Resume \/ Receive

Next == Worker \/ Ui

\* the engine under its lock-taking controls
Spec == Init /\ [][Next]_vars

\* the engine started with a goal and a model, with a UI that forces
\* compactions and resets the memory (no lock is taken)
InitCompact ==
    /\ Init
    /\ goal \in Goals /\ model \in Models /\ ~testMode

NextCompact ==
    \/ Worker
    \/ ForceCompactRead \/ ForceCompactClear \/ ForceCompactWrite
    \/ ResetMemory \/ Stop \/ Receive

SpecCompact == InitCompact /\ [][NextCompact]_vars

\* the engine with a UI that asks for rollbacks and checkpoints, each run on a
\* goroutine of its own, and that stops the engine
NextOps ==
    \/ Worker
    \/ RollbackStart \/ RollbackStatus \/ RollbackReset \/ RollbackSend
    \/ CheckpointStart \/ CheckpointCommit \/ CheckpointSend
    \/ Stop \/ Receive

SpecOps == InitCompact /\ [][NextOps]_vars

\* ============================================== the update channel alone
\* the update channel filled by successive sendUpdate calls of the engine
\* and emptied by the UI, with the updates numbered in emission order
InitBus ==
    /\ Init
    /\ goal \in Goals /\ model \in Models /\ ~testMode

\* Engine.sendUpdate, called with the next update of the engine
BusEmit ==
    /\ emitSeq < MaxBusEmits
    /\ closeCount = 0
    /\ emitSeq' = emitSeq + 1
    /\ updates' = SendUpdate(updates, [state |-> "DECIDING", msg |-> "Token",
                                       seq |-> emitSeq + 1])
    /\ UNCHANGED <<pc, ctxDone, err, sleepFor, state, paused, errorCount, goal,
                   speed, cycleCount, messages, backlog, model, cfgVars,
                   closeCount, received, toolCalls, toolIdx, toolResults,
                   uiVars, crashed, stopCalled, genericRun, phaseLog, auxVars,
                   budgetVars, toolResultsMsg>>

\* the UI's listenForUpdates, keeping what it received
BusReceive ==
    /\ updates # <<>>
    /\ received' = Append(received, Head(updates))
    /\ updates' = Tail(updates)
    /\ UNCHANGED <<pc, ctxDone, err, sleepFor, state, paused, errorCount, goal,
                   speed, cycleCount, messages, backlog, model, cfgVars,
                   closeCount, emitSeq, toolCalls, toolIdx, toolResults,
                   uiVars, crashed, stopCalled, genericRun, phaseLog, auxVars,
                   budgetVars, toolResultsMsg>>

NextBus == BusEmit \/ BusReceive

SpecBus == InitBus /\ [][NextBus]_vars

\* ======================================== the Execute phase of one cycle
\* a cycle that has just appended an assistant message carrying up to
\* MaxCalls tool calls, after 0..2 failed cycles
InitTools ==
    /\ InitEngine
    /\ goal \in Goals /\ model \in Models
    /\ pc = "execute"
    /\ errorCount \in 0..(ErrorThreshold - 1)
    /\ messages = <<Msg("system", ""), Msg("obs", ""), Msg("asst", "")>>
    /\ toolCalls \in 0..MaxCalls
    /\ InitNoStream
    /\ InitNoLib
    /\ InitNoPath

NextTools ==
    \/ ExecTool \/ FinishCycle \/ WakeUp \/ Success
    \/ CancelCurrent \/ Receive

SpecTools == InitTools /\ [][NextTools]_vars

\* ================================= one chat request and its chunk stream
\* the variables of the engine, which the producer goroutine never touches
engineVars == <<pc, ctxDone, err, sleepFor, state, paused, errorCount, goal,
                speed, cycleCount, messages, backlog, model, cfgVars, updates,
                closeCount, toolCalls, toolIdx, toolResults, uiVars, crashed,
                stopCalled, genericRun, phaseLog, busVars, budgetVars,
                toolResultsMsg>>

\* the lines a server can send: a blank line, a line that is not JSON, a
\* content chunk, a thinking chunk, and a done chunk (with or without
\* message.thinking, with a prompt_eval_count below or at the watermark)
LineSet ==
    {Line("blank", "", FALSE, 0), Line("bad", "", FALSE, 0)}
    \cup {Line("json", th, FALSE, 0) : th \in ThinkingTexts}
    \cup {Line("json", th, TRUE, t) : th \in ThinkingTexts,
                                      t \in PromptTokenCounts}

Bodies == UNION {[1..n -> LineSet] : n \in 0..MaxLines}

\* the conversation at the start of a decide phase: the system message and
\* an observation, possibly after an earlier turn whose assistant message
\* has a Thinking field
Conversations ==
    {<<Msg("system", ""), Msg("obs", "")>>}
    \cup {<<Msg("system", ""), Msg("obs", ""), Msg("asst", th),
            Msg("obs", "")>> : th \in ThinkingTexts}

\* Client.Chat called with the conversation: the request is built from
\* cleanMessages; the metrics of the response are stored
Chat ==
    /\ pc = "decide" /\ ~crashed /\ spc = "none" /\ request = <<>>
    /\ ~ctxDone /\ model # ""
    /\ request' = CleanMessages(messages)
    /\ \E t \in PromptTokenCounts : lastMetrics' = t
    /\ UNCHANGED <<engineVars, pathVars, libVars, respBody, scanPos, spc, chunk, stream,
                   streamClosed, sent, got, fullResponse, cancelSeen>>

\* decide: e.client.ChatStream(ctx, e.messages, tools). It fails when no
\* model is selected or the context is already cancelled; else the request
\* built from trimmedMessages is sent, the server answers with a body and
\* the producer goroutine is started on a channel of StreamCap chunks
ChatStream ==
    /\ pc = "decide" /\ ~crashed /\ spc = "none"
    /\ \/ /\ ctxDone \/ model = ""
          /\ \E e \in ErrStrings : err' = e
          /\ pc' = "handleErr"
          /\ phaseLog' = <<>>
          /\ UNCHANGED <<streamVars>>
       \/ /\ ~ctxDone /\ model # ""
          /\ err' = err
          /\ pc' = "streaming"
          /\ phaseLog' = Append(phaseLog, "decide")
          /\ request' = TrimmedMessages(messages)
          /\ \E b \in Bodies : respBody' = b
          /\ scanPos' = 0
          /\ spc' = "scan"
          /\ UNCHANGED <<chunk, stream, streamClosed, sent, got, fullResponse,
                         lastMetrics, cancelSeen>>
    /\ UNCHANGED <<ctxDone, sleepFor, state, paused, errorCount, goal, speed,
                   cycleCount, messages, backlog, model, cfgVars, updates,
                   closeCount, toolCalls, toolIdx, toolResults, uiVars, crashed,
                   stopCalled, genericRun, busVars, budgetVars, toolResultsMsg,
                   pathVars, libVars>>

\* producer: scanner.Scan(). With the context cancelled the read of the
\* body fails (the loop ends, scanner.Err() is sent), unless the next line
\* or the end of the body was already buffered; otherwise the next line,
\* or the end of the body
ProducerScan ==
    /\ spc = "scan"
    /\ \/ /\ scanPos < Len(respBody)
          /\ scanPos' = scanPos + 1
          /\ spc' = "check"
          /\ UNCHANGED <<chunk, cancelSeen>>
       \/ /\ ctxDone
          /\ chunk' = Chunk("scanner error: context canceled", FALSE, "", 0,
                            scanPos)
          /\ cancelSeen' = TRUE
          /\ spc' = "sendLast"
          /\ UNCHANGED scanPos
       \/ /\ scanPos = Len(respBody)
          /\ spc' = "closing"
          /\ UNCHANGED <<scanPos, chunk, cancelSeen>>
    /\ UNCHANGED <<engineVars, pathVars, libVars, request, respBody, stream,
                   streamClosed, sent, got, fullResponse, lastMetrics>>

\* faulty variant of ProducerCheck: the context is not consulted
ProducerCheckIgnoresCtx ==
    /\ spc = "check"
    /\ LET line == respBody[scanPos] IN
       /\ chunk' = IF line.kind = "bad"
                   THEN Chunk("failed to decode chunk", FALSE, "", 0, scanPos)
                   ELSE Chunk("", line.done, line.thinking,
                              IF line.done THEN line.tokens ELSE 0, scanPos)
       /\ spc' = IF line.kind = "blank" THEN "scan" ELSE "send"
       /\ lastMetrics' = IF line.kind = "json" /\ line.done
                         THEN line.tokens ELSE lastMetrics
       /\ UNCHANGED cancelSeen
    /\ UNCHANGED <<engineVars, pathVars, libVars, request, respBody, scanPos, stream,
                   streamClosed, sent, got, fullResponse>>

\* faulty variant of ProducerCheck: a line that fails to decode ends the
\* stream
ProducerCheckStopsOnBadLine ==
    /\ spc = "check"
    /\ LET line == respBody[scanPos] IN
       IF ctxDone
       THEN /\ chunk' = Chunk("context canceled", FALSE, "", 0, scanPos)
            /\ cancelSeen' = TRUE
            /\ spc' = "sendLast"
            /\ UNCHANGED lastMetrics
       ELSE /\ chunk' = IF line.kind = "bad"
                        THEN Chunk("failed to decode chunk", FALSE, "", 0,
                                   scanPos)
                        ELSE Chunk("", line.done, line.thinking,
                                   IF line.done THEN line.tokens ELSE 0,
                                   scanPos)
            /\ spc' = IF line.kind = "blank" THEN "scan"
                      ELSE IF line.kind = "bad" THEN "sendLast" ELSE "send"
            /\ lastMetrics' = IF line.kind = "json" /\ line.done
                              THEN line.tokens ELSE lastMetrics
            /\ UNCHANGED cancelSeen
    /\ UNCHANGED <<engineVars, pathVars, libVars, request, respBody, scanPos, stream,
                   streamClosed, sent, got, fullResponse>>

\* producer, loop body up to the send: the select on ctx.Done() (the chunk
\* is ctx.Err() and the goroutine returns after sending it); a blank line
\* is skipped; a line that fails to decode gives an error chunk; else the
\* chunk of the decoded response, whose metrics are stored in the client
\* when it is done
ProducerCheck ==
    /\ spc = "check"
    /\ LET line == respBody[scanPos] IN
       IF ctxDone
       THEN /\ chunk' = Chunk("context canceled", FALSE, "", 0, scanPos)
            /\ cancelSeen' = TRUE
            /\ spc' = "sendLast"
            /\ UNCHANGED lastMetrics
       ELSE /\ chunk' = IF line.kind = "bad"
                        THEN Chunk("failed to decode chunk", FALSE, "", 0,
                                   scanPos)
                        ELSE Chunk("", line.done, line.thinking,
                                   IF line.done THEN line.tokens ELSE 0,
                                   scanPos)
            /\ spc' = IF line.kind = "blank" THEN "scan" ELSE "send"
            /\ lastMetrics' = IF line.kind = "json" /\ line.done
                              THEN line.tokens ELSE lastMetrics
            /\ UNCHANGED cancelSeen
    /\ UNCHANGED <<engineVars, pathVars, libVars, request, respBody, scanPos, stream,
                   streamClosed, sent, got, fullResponse>>

\* faulty variant of ProducerSend: the chunk is put in front of the
\* chunks already buffered
ProducerSendFront ==
    /\ spc \in {"send", "sendLast"}
    /\ Len(stream) < StreamCap
    /\ stream' = <<chunk>> \o stream
    /\ sent' = Append(sent, chunk)
    /\ spc' = IF spc = "sendLast" \/ chunk.Done THEN "closing" ELSE "scan"
    /\ UNCHANGED <<engineVars, pathVars, libVars, request, respBody, scanPos, chunk,
                   streamClosed, got, fullResponse, lastMetrics, cancelSeen>>

\* producer: ch <- chunk, which waits while the channel is full; after a
\* done chunk, ctx.Err() or scanner.Err() the goroutine returns, after any
\* other chunk it scans the next line
ProducerSend ==
    /\ spc \in {"send", "sendLast"}
    /\ Len(stream) < StreamCap
    /\ stream' = Append(stream, chunk)
    /\ sent' = Append(sent, chunk)
    /\ spc' = IF spc = "sendLast" \/ chunk.Done THEN "closing" ELSE "scan"
    /\ UNCHANGED <<engineVars, pathVars, libVars, request, respBody, scanPos, chunk,
                   streamClosed, got, fullResponse, lastMetrics, cancelSeen>>

\* producer: the deferred close(ch)
ProducerClose ==
    /\ spc = "closing"
    /\ streamClosed' = TRUE
    /\ spc' = "closed"
    /\ UNCHANGED <<engineVars, pathVars, libVars, request, respBody, scanPos, chunk,
                   stream, sent, got, fullResponse, lastMetrics, cancelSeen>>

\* decide, one iteration of "for chunk := range stream": an error chunk
\* makes decide return the error; thinking and content are forwarded to the
\* UI; a done chunk becomes fullResponse and its metrics go to the budget
\* manager
DecideRecv ==
    /\ pc = "streaming" /\ ~crashed /\ spc # "none"
    /\ stream # <<>>
    /\ LET c == Head(stream) IN
       /\ stream' = Tail(stream)
       /\ got' = Append(got, c)
       /\ IF c.Error # ""
          THEN /\ err' \in ErrStrings
               /\ pc' = "handleErr"
               /\ phaseLog' = <<>>
               /\ NoEmit
               /\ UNCHANGED <<fullResponse, lastPromptTokens>>
          ELSE /\ CanEmit
               /\ Emit(<<Upd("DECIDING",
                             IF c.Thinking # "" THEN "Thinking" ELSE "Token")>>)
               /\ fullResponse' = IF c.Done THEN Msg("asst", c.Thinking)
                                  ELSE fullResponse
               /\ lastPromptTokens' = IF c.Done /\ c.Metrics # 0
                                      THEN c.Metrics ELSE lastPromptTokens
               /\ UNCHANGED <<err, pc, phaseLog>>
    /\ UNCHANGED <<ctxDone, sleepFor, state, paused, errorCount, goal, speed,
                   cycleCount, messages, backlog, model, cfgVars, closeCount,
                   toolCalls, toolIdx, toolResults, uiVars, crashed, stopCalled,
                   genericRun, busVars, compactionEvents, toolResultsMsg,
                   pathVars, libVars, request, respBody, scanPos, spc, chunk,
                   streamClosed, sent, lastMetrics, cancelSeen>>

\* a decide phase about to call the client, goal and model set
InitStream ==
    /\ InitEngine
    /\ goal \in Goals /\ model \in Models /\ ~testMode
    /\ pc = "decide"
    /\ errorCount = 0
    /\ toolCalls = 0
    /\ messages \in Conversations
    /\ InitNoStream
    /\ InitNoLib
    /\ InitNoPath

NextStream ==
    \/ Chat \/ ChatStream
    \/ ProducerScan \/ ProducerCheck \/ ProducerSend \/ ProducerClose
    \/ DecideRecv \/ DecideDone
    \/ CancelCurrent \/ Receive

SpecStream == InitStream /\ [][NextStream]_vars

\* a response body of MaxLongLines lines whose first line is not JSON and
\* whose other lines are content chunks: more lines follow the error chunk
\* than the channel can buffer
BadThenData == [i \in 1..MaxLongLines |->
                   IF i = 1 THEN Line("bad", "", FALSE, 0)
                   ELSE Line("json", "", FALSE, 0)]

\* a content chunk and the done chunk
DataDone == <<Line("json", "", FALSE, 0),
              Line("json", "", TRUE, HighWatermark - 1)>>

\* decide has called ChatStream: the request was sent, the server answers
\* with a body, the producer goroutine is about to scan its first line
InitProducer ==
    /\ InitEngine
    /\ goal \in Goals /\ model \in Models /\ ~testMode
    /\ pc = "streaming"
    /\ errorCount = 0
    /\ toolCalls = 0
    /\ messages \in Conversations
    /\ request = TrimmedMessages(messages)
    /\ respBody \in {BadThenData, DataDone}
    /\ scanPos = 0
    /\ spc = "scan"
    /\ chunk = NoChunk
    /\ stream = <<>>
    /\ streamClosed = FALSE
    /\ sent = <<>>
    /\ got = <<>>
    /\ fullResponse = Msg("asst", "")
    /\ lastMetrics = 0
    /\ cancelSeen = FALSE
    /\ InitNoLib
    /\ InitNoPath

NextProducer ==
    \/ ProducerScan \/ ProducerCheck \/ ProducerSend \/ ProducerClose
    \/ DecideRecv \/ DecideDone
    \/ CancelCurrent \/ Receive

\* the producer goroutine, the worker in decide and the UI reading the
\* updates are goroutines the Go scheduler runs whenever they can take a step
SpecProducer ==
    /\ InitProducer /\ [][NextProducer]_vars
    /\ WF_vars(ProducerScan) /\ WF_vars(ProducerCheck)
    /\ WF_vars(ProducerSend) /\ WF_vars(ProducerClose)
    /\ WF_vars(DecideRecv) /\ WF_vars(DecideDone)
    /\ WF_vars(Receive)

\* ================================== the tools that take a path argument
\* filepath.IsAbs
IsAbs(p) == Len(p) > 0 /\ p[1] = "/"

\* strings.HasPrefix
HasPrefix(s, prefix) ==
    Len(s) >= Len(prefix) /\ SubSeq(s, 1, Len(prefix)) = prefix

\* the components of p between its separators (empty components included)
RECURSIVE Split(_, _)
Split(p, cur) ==
    IF p = <<>> THEN <<cur>>
    ELSE IF Head(p) = "/" THEN <<cur>> \o Split(Tail(p), <<>>)
    ELSE Split(Tail(p), Append(cur, Head(p)))

\* filepath.Clean, the pass over the components: empty and "." components
\* are dropped, ".." removes the component before it, is dropped at the top
\* of a rooted path and is kept at the top of a relative one
RECURSIVE CleanComponents(_, _, _)
CleanComponents(comps, out, rooted) ==
    IF comps = <<>> THEN out
    ELSE LET c == Head(comps) IN
         IF c = <<>> \/ c = <<".">>
         THEN CleanComponents(Tail(comps), out, rooted)
         ELSE IF c = <<".", ".">>
         THEN IF out # <<>> /\ out[Len(out)] # <<".", ".">>
              THEN CleanComponents(Tail(comps), SubSeq(out, 1, Len(out) - 1),
                                   rooted)
              ELSE IF rooted
              THEN CleanComponents(Tail(comps), out, rooted)
              ELSE CleanComponents(Tail(comps), Append(out, c), rooted)
         ELSE CleanComponents(Tail(comps), Append(out, c), rooted)

\* strings.Join(comps, "/")
RECURSIVE JoinComponents(_)
JoinComponents(comps) ==
    IF comps = <<>> THEN <<>>
    ELSE IF Len(comps) = 1 THEN Head(comps)
    ELSE Head(comps) \o <<"/">> \o JoinComponents(Tail(comps))

\* filepath.Clean
Clean(p) ==
    IF p = <<>> THEN <<".">>
    ELSE LET out == JoinComponents(CleanComponents(Split(p, <<>>), <<>>,
                                                   IsAbs(p)))
         IN IF IsAbs(p) THEN <<"/">> \o out
            ELSE IF out = <<>> THEN <<".">> ELSE out

\* filepath.Join(a, b): empty elements are ignored, the rest is joined with
\* the separator and cleaned
Join(a, b) ==
    IF a = <<>> /\ b = <<>> THEN <<>>
    ELSE IF a = <<>> THEN Clean(b)
    ELSE IF b = <<>> THEN Clean(a)
    ELSE Clean(a \o <<"/">> \o b)

\* the result of a failed resolvePath
PathError == [called |-> TRUE, ok |-> FALSE, path |-> <<>>]

\* tools.resolvePath
resolvePath(r, path) ==
    IF IsAbs(path)
    THEN LET cleanPath == Clean(path)
             cleanRoot == Clean(r)
         IN IF ~HasPrefix(cleanPath, cleanRoot \o <<"/">>)
               /\ cleanPath # cleanRoot
            THEN PathError
            ELSE [called |-> TRUE, ok |-> TRUE, path |-> cleanPath]
    ELSE LET joined == Join(r, path)
             cleanPath == Clean(joined)
             cleanRoot == Clean(r)
         IN IF ~HasPrefix(cleanPath, cleanRoot \o <<"/">>)
               /\ cleanPath # cleanRoot
            THEN PathError
            ELSE [called |-> TRUE, ok |-> TRUE, path |-> cleanPath]

\* the characters of a path: the separator, the dot and one letter
PathChars == {"/", ".", "w"}

\* the path arguments of a tool call
Candidates == UNION {[1..n -> PathChars] : n \in 0..MaxPathLen}

\* the working directory of the process
WorkDir == <<"/", "w", "/", "w">>

\* the -workspace flag: an absolute directory, or a directory given
\* relative to the working directory (here its parent)
Roots == {<<"/", "w">>, <<".", ".">>}

PathTools == {"fs_list", "fs_read", "fs_write", "fs_patch", "exec"}

\* fs_list, fs_read and fs_patch: the target is resolved, and only a
\* resolved target is listed, read or rewritten; a target that does not
\* resolve, or a failure of the filesystem, is returned as
\* &ToolResult{Error: err}, err
FsListReadPatch ==
    /\ fsTool \in {"fs_list", "fs_read", "fs_patch"}
    /\ ~resolved.called
    /\ resolved' = resolvePath(root, candidate)
    /\ accessed' = IF resolved'.ok THEN {resolved'.path} ELSE {}
    /\ \E fsFails \in IF resolved'.ok THEN BOOLEAN ELSE {TRUE} :
          ret' = IF fsFails THEN Returned(TRUE, TRUE)
                 ELSE Returned(TRUE, FALSE)
    /\ UNCHANGED <<engineVars, streamVars, libVars, fsTool, candidate, root>>

\* fs_write: the target is resolved, then os.MkdirAll(filepath.Dir(target))
\* and os.WriteFile(target). MkdirAll creates the missing directories
\* between the root and the target; for target = root its argument is the
\* parent of the root, which exists, and nothing is created
FsWrite ==
    /\ fsTool = "fs_write"
    /\ ~resolved.called
    /\ resolved' = resolvePath(root, candidate)
    /\ accessed' = IF resolved'.ok THEN {resolved'.path} ELSE {}
    /\ \E fsFails \in IF resolved'.ok THEN BOOLEAN ELSE {TRUE} :
          ret' = IF fsFails THEN Returned(TRUE, TRUE)
                 ELSE Returned(TRUE, FALSE)
    /\ UNCHANGED <<engineVars, streamVars, libVars, fsTool, candidate, root>>

\* exec: the working directory of the command is the root, or the resolved
\* cwd argument when one is given; with a cwd that does not resolve no
\* command is started; a command that ran is returned with a nil error
\* whatever its exit code
ExecCwd ==
    /\ fsTool = "exec"
    /\ ~resolved.called
    /\ resolved' = IF candidate = <<>>
                   THEN [called |-> TRUE, ok |-> TRUE, path |-> root]
                   ELSE resolvePath(root, candidate)
    /\ accessed' = IF resolved'.ok THEN {resolved'.path} ELSE {}
    /\ ret' = IF resolved'.ok THEN Returned(TRUE, FALSE)
              ELSE Returned(TRUE, TRUE)
    /\ UNCHANGED <<engineVars, streamVars, libVars, fsTool, candidate, root>>

\* Registry.Execute with a name that is not registered
UnknownTool ==
    /\ fsTool \notin PathTools
    /\ ~resolved.called
    /\ resolved' = PathError
    /\ ret' = Returned(FALSE, TRUE)
    /\ UNCHANGED <<engineVars, streamVars, libVars, fsTool, candidate, root, accessed>>

\* a registry on a workspace root, about to execute one tool call that
\* takes a path
InitPath ==
    /\ InitEngine
    /\ goal \in Goals /\ model \in Models /\ ~testMode
    /\ pc = "execute"
    /\ errorCount = 0
    /\ toolCalls = 1
    /\ messages = <<Msg("system", ""), Msg("obs", ""), Msg("asst", "")>>
    /\ InitNoStream
    /\ InitNoLib
    /\ root \in Roots
    /\ fsTool \in PathTools \cup {"nosuch"}
    /\ candidate \in Candidates
    /\ resolved = [called |-> FALSE, ok |-> FALSE, path |-> <<>>]
    /\ accessed = {}
    /\ ret = Returned(FALSE, FALSE)

NextPath == FsListReadPatch \/ FsWrite \/ ExecCwd \/ UnknownTool

SpecPath == InitPath /\ [][NextPath]_vars

\* ==================================================== the backlog alone
\* descriptions of the issues a scan reports (one of them the text of the
\* goal) and of a failing test
ScanDescriptions == Goals \cup {"todo", "fixme"}

\* faulty variant of RefreshBacklog: the item is appended without the
\* duplicate check
RefreshBacklogNoDedup ==
    /\ ~crashed
    /\ \/ \E d \in ScanDescriptions, p \in 1..MaxPriority :
             backlog' = InsertByPriority(backlog,
                           [Description |-> d, Priority |-> p])
       \/ backlog' = InsertByPriority(backlog,
                        [Description |-> "failing test", Priority |-> 1])
    /\ UNCHANGED <<pc, ctxDone, err, sleepFor, state, paused, errorCount, goal,
                   speed, cycleCount, messages, model, cfgVars, updates,
                   closeCount, toolCalls, toolIdx, toolResults, uiVars, crashed,
                   stopCalled, genericRun, phaseLog, busVars, auxVars,
                   budgetVars, toolResultsMsg>>

\* Engine.refreshBacklog, one of its addToBacklog calls: an issue of the
\* scan with the priority of the issue, or a failing test with priority 1
RefreshBacklog ==
    /\ ~crashed
    /\ \/ \E d \in ScanDescriptions, p \in 1..MaxPriority :
             backlog' = AddToBacklog(backlog,
                           [Description |-> d, Priority |-> p])
       \/ backlog' = AddToBacklog(backlog,
                        [Description |-> "failing test", Priority |-> 1])
    /\ UNCHANGED <<pc, ctxDone, err, sleepFor, state, paused, errorCount, goal,
                   speed, cycleCount, messages, model, cfgVars, updates,
                   closeCount, toolCalls, toolIdx, toolResults, uiVars, crashed,
                   stopCalled, genericRun, phaseLog, busVars, auxVars,
                   budgetVars, toolResultsMsg>>

\* a started engine with an empty backlog and no goal
InitBacklog ==
    /\ InitEngine
    /\ goal = "" /\ model \in Models /\ ~testMode
    /\ pc = "top"
    /\ errorCount = 0
    /\ toolCalls = 0
    /\ messages = <<Msg("system", "")>>
    /\ InitNoStream
    /\ InitNoLib
    /\ InitNoPath

NextBacklog == SetGoal \/ RefreshBacklog

SpecBacklog == InitBacklog /\ [][NextBacklog]_vars

\* ==================================================== the task store
\* TaskStore.AddTask up to the unlock: the task (a new value, with the id
\* and status the caller gave it) is stored under its id
AddTask(c) ==
    /\ tpc[c] = "idle" /\ now <= MaxClock
    /\ \E id \in TaskIds, st \in AddStatuses :
          tasks' = [tasks EXCEPT ![id] =
                       Task(nextGen + 1, IF st = "" THEN "pending" ELSE st,
                            now, 0, 0)]
    /\ nextGen' = nextGen + 1
    /\ now' = now + 1
    /\ tpc' = [tpc EXCEPT ![c] = "save"]
    /\ UNCHANGED <<engineVars, streamVars, pathVars, compVars, tasksFile, tsnap>>

\* TaskStore.SetTaskStatus (through UpdateTask) up to the unlock
SetTaskStatus(c) ==
    /\ tpc[c] = "idle" /\ now <= MaxClock
    /\ \E id \in TaskIds, st \in Statuses :
          /\ tasks[id] # NoTask
          /\ tasks' = [tasks EXCEPT ![id] =
                [@ EXCEPT !.status = st,
                          !.completedAt = IF st \in {"completed", "failed",
                                                     "skipped"}
                                          THEN now ELSE @,
                          !.updatedAt = now]]
    /\ now' = now + 1
    /\ tpc' = [tpc EXCEPT ![c] = "save"]
    /\ UNCHANGED <<engineVars, streamVars, pathVars, compVars, tasksFile, tsnap,
                   nextGen>>

\* TaskStore.IncrementAttempts (through UpdateTask) up to the unlock
IncrementAttempts(c) ==
    /\ tpc[c] = "idle" /\ now <= MaxClock
    /\ \E id \in TaskIds :
          /\ tasks[id] # NoTask /\ tasks[id].attempts < MaxAttempts
          /\ tasks' = [tasks EXCEPT ![id] =
                [@ EXCEPT !.attempts = @ + 1, !.updatedAt = now]]
    /\ now' = now + 1
    /\ tpc' = [tpc EXCEPT ![c] = "save"]
    /\ UNCHANGED <<engineVars, streamVars, pathVars, compVars, tasksFile, tsnap,
                   nextGen>>

\* TaskStore.RemoveTask, ClearCompleted and Clear up to the unlock
RemoveTasks(c) ==
    /\ tpc[c] = "idle"
    /\ \/ \E id \in TaskIds : tasks' = [tasks EXCEPT ![id] = NoTask]
       \/ tasks' = [i \in TaskIds |->
                      IF tasks[i].status \in {"completed", "skipped"}
                      THEN NoTask ELSE tasks[i]]
       \/ tasks' = [i \in TaskIds |-> NoTask]
    /\ tpc' = [tpc EXCEPT ![c] = "save"]
    /\ UNCHANGED <<engineVars, streamVars, pathVars, compVars, tasksFile,
                   tsnap, now, nextGen>>

\* TaskStore.save under the read lock: the pointers to the tasks are
\* copied into a slice
SaveSnapshot(c) ==
    /\ tpc[c] = "save"
    /\ tsnap' = [tsnap EXCEPT ![c] = tasks]
    /\ tpc' = [tpc EXCEPT ![c] = "marshal"]
    /\ UNCHANGED <<engineVars, streamVars, pathVars, compVars, tasks,
                   tasksFile, now, nextGen>>

\* TaskStore.save after the unlock: json.MarshalIndent reads the Task
\* values of the slice as they are by now
SaveMarshal(c) ==
    /\ tpc[c] = "marshal"
    /\ tsnap' = [tsnap EXCEPT ![c] =
                   [i \in TaskIds |->
                      IF tsnap[c][i] # NoTask /\ tasks[i].gen = tsnap[c][i].gen
                      THEN tasks[i] ELSE tsnap[c][i]]]
    /\ tpc' = [tpc EXCEPT ![c] = "write"]
    /\ UNCHANGED <<engineVars, streamVars, pathVars, compVars, tasks,
                   tasksFile, now, nextGen>>

\* faulty variant of SaveWrite: the mutator returns without writing
SaveWriteSkipped(c) ==
    /\ tpc[c] = "write"
    /\ tpc' = [tpc EXCEPT ![c] = "idle"]
    /\ tsnap' = [tsnap EXCEPT ![c] = [i \in TaskIds |-> NoTask]]
    /\ UNCHANGED <<engineVars, streamVars, pathVars, compVars, tasks,
                   tasksFile, now, nextGen>>

\* TaskStore.save: os.WriteFile, and the mutator returns
SaveWrite(c) ==
    /\ tpc[c] = "write"
    /\ tasksFile' = Encode(tsnap[c])
    /\ tpc' = [tpc EXCEPT ![c] = "idle"]
    /\ tsnap' = [tsnap EXCEPT ![c] = [i \in TaskIds |-> NoTask]]
    /\ UNCHANGED <<engineVars, streamVars, pathVars, compVars, tasks, now,
                   nextGen>>

\* an engine whose task store is used by its callers
InitTasks ==
    /\ InitEngine
    /\ goal \in Goals /\ model \in Models /\ ~testMode
    /\ pc = "top"
    /\ errorCount = 0
    /\ toolCalls = 0
    /\ messages = <<Msg("system", "")>>
    /\ InitNoStream
    /\ InitNoPath
    /\ InitNoLib

NextTasks ==
    \E c \in Callers :
          \/ AddTask(c) \/ SetTaskStatus(c) \/ IncrementAttempts(c)
          \/ RemoveTasks(c)
          \/ SaveSnapshot(c) \/ SaveMarshal(c) \/ SaveWrite(c)

SpecTasks == InitTasks /\ [][NextTasks]_vars

\* ------------------------------------------------------------ BudgetManager
\* int(float64(n) * ratio) for n >= 0: the product, truncated
Watermark(n, ratio) == (n * ratio) \div 100

\* BudgetManager.GetState (UsageRatio, a float, is left out)
GetState(b) ==
    LET highWatermark == Watermark(b.config.NumCtx, b.config.HighWatermarkRatio)
        lowWatermark == Watermark(b.config.NumCtx, b.config.LowWatermarkRatio)
    IN [NumCtx |-> b.config.NumCtx,
        HighWatermark |-> highWatermark,
        LowWatermark |-> lowWatermark,
        AvailableTokens |-> b.config.NumCtx - b.lastPromptTokens
                               - b.config.ReserveOutputTokens,
        LastPromptTokens |-> b.lastPromptTokens,
        LastEvalTokens |-> b.lastEvalTokens,
        NeedsCompaction |-> b.lastPromptTokens >= highWatermark]

\* BudgetManager.NeedsCompaction, of a manager with any configuration
ManagerNeedsCompaction(b) ==
    b.lastPromptTokens >= Watermark(b.config.NumCtx, b.config.HighWatermarkRatio)

\* the arguments the callers pass
NumCtxArgs == {-1, 0, 1, 2, 10, 8192}
RatioArgs == {-10, 0, 50, 60, 70, 80, 100, 120}
TokenArgs == {0, 1, 8, 6553, 6554}

BudgetConfigs ==
    {BudgetConfig(n, h, l, r, t) :
        n \in NumCtxArgs, h \in RatioArgs, l \in RatioArgs, r \in {-1, 0, 512},
        t \in {0, 3}}

SetNumCtx ==
    /\ bm.calls < MaxBudgetCalls
    /\ \E numCtx \in NumCtxArgs :
          bm' = [bm EXCEPT !.config.NumCtx = IF numCtx > 0 THEN numCtx ELSE @,
                           !.calls = @ + 1]
    /\ UNCHANGED <<engineVars, streamVars, pathVars, storeVars, miscVars, ctArgs, ctRet, memVars>>

UpdateMetrics ==
    /\ bm.calls < MaxBudgetCalls
    /\ \E promptTokens \in TokenArgs, evalTokens \in {0, 1} :
          bm' = [bm EXCEPT !.lastPromptTokens = promptTokens,
                           !.lastEvalTokens = evalTokens,
                           !.calls = @ + 1]
    /\ UNCHANGED <<engineVars, streamVars, pathVars, storeVars, miscVars, ctArgs, ctRet, memVars>>

\* a BudgetManager constructed from any configuration
InitBudget ==
    /\ InitEngine
    /\ goal \in Goals /\ model \in Models /\ ~testMode
    /\ pc = "top"
    /\ errorCount = 0
    /\ toolCalls = 0
    /\ messages = <<Msg("system", "")>>
    /\ InitNoStream
    /\ InitNoPath
    /\ InitStore
    /\ NoTranscriptCall
    /\ NewManager(5)
    /\ InitNoMisc
    /\ \E cfg \in BudgetConfigs : bm = NewBudgetManager(cfg)

NextBudget == SetNumCtx \/ UpdateMetrics

SpecBudget == InitBudget /\ [][NextBudget]_vars

\* ------------------------------------------------ Compactor.CompactTranscript
\* extractKeyAction: the first line with an action prefix, or ""
extractKeyAction(content) == IF content = "RUN: go test" THEN content ELSE ""

\* the lines of the summary; the empty summary has none
HeaderLine(removedCount) == [kind |-> "header", n |-> removedCount, text |-> ""]
BulletLine(action) == [kind |-> "bullet", n |-> 0, text |-> action]

\* the bullets of the removed assistant messages messages[from..to]
RECURSIVE KeyActions(_, _, _)
KeyActions(ms, from, to) ==
    IF from > to THEN <<>>
    ELSE (IF ms[from].Role = "assistant"
             /\ extractKeyAction(ms[from].Content) # ""
          THEN <<BulletLine(extractKeyAction(ms[from].Content))>>
          ELSE <<>>)
         \o KeyActions(ms, from + 1, to)

\* faulty variant of CompactTranscriptOf: the kept suffix starts one message
\* early and the system message is not put back
CompactTranscriptNoSystem(maxTurns, ms, keepSystemMsg) ==
    IF Len(ms) = 0 THEN [messages |-> ms, summary |-> <<>>]
    ELSE LET keepSys == keepSystemMsg /\ ms[1].Role = "system"
             startIdx == IF keepSys THEN 1 ELSE 0
             maxMessages == maxTurns * 2 + startIdx
             removedCount == Len(ms) - maxMessages
         IN IF Len(ms) <= maxMessages
            THEN [messages |-> ms, summary |-> <<>>]
            ELSE [messages |-> SubSeq(ms, removedCount + 1,
                                      Len(ms)),
                  summary |-> <<HeaderLine(removedCount)>>
                              \o KeyActions(ms, startIdx + 1,
                                            removedCount + startIdx)]

\* Compactor.CompactTranscript with maxTurns read from the BudgetManager:
\* the ms and the summary it returns
CompactTranscriptOf(maxTurns, ms, keepSystemMsg) ==
    IF Len(ms) = 0 THEN [messages |-> ms, summary |-> <<>>]
    ELSE LET keepSys == keepSystemMsg /\ ms[1].Role = "system"
             startIdx == IF keepSys THEN 1 ELSE 0
             maxMessages == maxTurns * 2 + startIdx
             removedCount == Len(ms) - maxMessages
         IN IF Len(ms) <= maxMessages
            THEN [messages |-> ms, summary |-> <<>>]
            ELSE [messages |-> (IF keepSys THEN <<ms[1]>> ELSE <<>>)
                               \o SubSeq(ms, removedCount + startIdx + 1,
                                         Len(ms)),
                  summary |-> <<HeaderLine(removedCount)>>
                              \o KeyActions(ms, startIdx + 1,
                                            removedCount + startIdx)]

\* c.CompactTranscript(messages, keepSystemMsg) on a compactor with a
\* BudgetManager
CompactTranscriptCall ==
    /\ ~ctRet.called
    /\ LET r == CompactTranscriptOf(bm.config.MaxTranscriptTurns,
                                    ctArgs.messages, ctArgs.keepSystemMsg)
       IN ctRet' = [called |-> TRUE, messages |-> r.messages,
                    summary |-> r.summary]
    /\ UNCHANGED <<engineVars, streamVars, pathVars, storeVars, miscVars, bm, ctArgs, memVars>>

\* the transcripts: messages of the three roles, whose content is without a
\* key action or is a line that starts with one of the action prefixes
Transcripts ==
    LET Messages == {CtxMessage(r, c) : r \in {"system", "user", "assistant"},
                                        c \in {"hello", "RUN: go test"}}
    IN UNION {[1..n -> Messages] : n \in 0..MaxTranscript}

\* a compactor whose BudgetManager was constructed with any number of turns,
\* about to be called with any transcript
InitTranscript ==
    /\ InitEngine
    /\ goal \in Goals /\ model \in Models /\ ~testMode
    /\ pc = "top"
    /\ errorCount = 0
    /\ toolCalls = 0
    /\ messages = <<Msg("system", "")>>
    /\ InitNoStream
    /\ InitNoPath
    /\ InitStore
    /\ \E turns \in {0, 1, 2} :
          bm = NewBudgetManager(BudgetConfig(DefaultNumCtx, DefaultHighWatermark,
                                             DefaultLowWatermark,
                                             DefaultReserveOutput, turns))
    /\ ctArgs \in [messages : Transcripts, keepSystemMsg : BOOLEAN]
    /\ ctRet = [called |-> FALSE, messages |-> <<>>, summary |-> <<>>]
    /\ NewManager(5)
    /\ InitNoMisc

NextTranscript == CompactTranscriptCall

SpecTranscript == InitTranscript /\ [][NextTranscript]_vars

\* ------------------------------------------------------------ memory.Manager
\* faulty variant of TriggerUpdate: cyclesSinceUpdate is not reset
TriggerUpdateKeepsCount(reason) ==
    /\ mm' = [mm EXCEPT !.memory.UpdateReason = reason]
    /\ mmFile' = mm'.memory
    /\ mmLog' = Append(mmLog, reason)

\* Manager.TriggerUpdate: the reason is written, the counter reset and the
\* memory saved (LastUpdated, a time, is left out)
TriggerUpdate(reason) ==
    /\ mm' = [mm EXCEPT !.memory.UpdateReason = reason,
                        !.cyclesSinceUpdate = 0]
    /\ mmFile' = mm'.memory
    /\ mmLog' = Append(mmLog, reason)

\* number of OnCycleComplete calls so far
CycleCalls == Cardinality({i \in 1..Len(mmLog) : mmLog[i] = "cycle"})

\* Manager.OnCycleComplete up to the release of the lock: the counter is
\* incremented and compared; a call that does not update returns false
OnCycleComplete ==
    /\ mmCall.pc = "idle"
    /\ Len(mmLog) < MaxMemoryLog
    /\ LET cycleNum == CycleCalls + 1
           shouldUpdate == mm.cyclesSinceUpdate + 1 >= mm.UpdateInterval
       IN /\ mm' = [mm EXCEPT !.cyclesSinceUpdate = @ + 1,
                              !.memory.CycleCount = cycleNum]
          /\ mmCall' = IF shouldUpdate THEN [pc |-> "update", ret |-> FALSE]
                       ELSE [pc |-> "idle", ret |-> FALSE]
    /\ mmLog' = Append(mmLog, "cycle")
    /\ UNCHANGED <<engineVars, streamVars, pathVars, storeVars, miscVars, bm, ctArgs,
                   ctRet, mmFile>>

\* Manager.OnCycleComplete, shouldUpdate: TriggerUpdate("periodic"), and the
\* call returns true
OnCycleCompleteUpdate ==
    /\ mmCall.pc = "update"
    /\ TriggerUpdate("periodic")
    /\ mmCall' = [pc |-> "idle", ret |-> TRUE]
    /\ UNCHANGED <<engineVars, streamVars, pathVars, storeVars, miscVars, bm, ctArgs,
                   ctRet>>

\* Manager.OnCheckpoint (memory.LastGoodCommit is left out),
\* Manager.OnSignificantFailure and a TriggerUpdate call of another caller
OtherUpdate ==
    /\ Len(mmLog) < MaxMemoryLog
    /\ \E reason \in {"checkpoint", "failure: tests", "manual"} :
          TriggerUpdate(reason)
    /\ UNCHANGED <<engineVars, streamVars, pathVars, storeVars, miscVars, bm, ctArgs,
                   ctRet, mmCall>>

\* Manager.Reset
Reset ==
    /\ Len(mmLog) < MaxMemoryLog
    /\ mm' = [mm EXCEPT !.memory = WorkingMemory(0, "reset"),
                        !.cyclesSinceUpdate = 0]
    /\ mmFile' = mm'.memory
    /\ mmLog' = Append(mmLog, "reset")
    /\ UNCHANGED <<engineVars, streamVars, pathVars, storeVars, miscVars, bm, ctArgs,
                   ctRet, mmCall>>

\* a memory manager with an update interval, its cycles reported by one
\* caller, the other updates made from any thread
InitMemory ==
    /\ InitEngine
    /\ goal \in Goals /\ model \in Models /\ ~testMode
    /\ pc = "top"
    /\ errorCount = 0
    /\ toolCalls = 0
    /\ messages = <<Msg("system", "")>>
    /\ InitNoStream
    /\ InitNoPath
    /\ InitStore
    /\ bm = NewBudgetManager(DefaultBudgetConfig)
    /\ NoTranscriptCall
    /\ \E updateInterval \in {1, 2, 3} : NewManager(updateInterval)
    /\ InitNoMisc

NextMemory ==
    OnCycleComplete \/ OnCycleCompleteUpdate \/ OtherUpdate \/ Reset

SpecMemory == InitMemory /\ [][NextMemory]_vars

\* -------------------------------------------------------------- logs.Session
\* os.File.Write: an open file takes the line, a closed file returns
\* os.ErrClosed (errors of the disk are left out)
WriteEntry(f) ==
    /\ sess.lines[f] < MaxLogLines
    /\ sess' = IF sess.open[f]
               THEN [sess EXCEPT !.lines[f] = @ + 1, !.ret = "nil"]
               ELSE [sess EXCEPT !.ret = "err"]
    /\ UNCHANGED <<engineVars, streamVars, pathVars, storeVars, bm, ctArgs,
                   ctRet, memVars, im, lookup>>

\* Session.LogMessage (and LogCheckpoint, LogObjective, which call it)
LogMessage == WriteEntry("transcript")

\* Session.LogThinking
LogThinking == WriteEntry("thinkingLog")

\* Session.LogToolCall
LogToolCall == WriteEntry("toolLog")

\* Session.Close: each of the three files, which are never nil, is closed;
\* os.File.Close returns os.ErrClosed for a file that is closed already, and
\* the first error is returned
SessionClose ==
    /\ sess.closes < MaxCloses
    /\ LET errs == {f \in LogFiles : ~sess.open[f]}
       IN sess' = [sess EXCEPT !.open = [f \in LogFiles |-> FALSE],
                               !.ret = IF errs # {} THEN "err" ELSE "nil",
                               !.closes = @ + 1]
    /\ UNCHANGED <<engineVars, streamVars, pathVars, storeVars, bm, ctArgs,
                   ctRet, memVars, im, lookup>>

\* a session log and its users
InitSession ==
    /\ InitEngine
    /\ goal \in Goals /\ model \in Models /\ ~testMode
    /\ pc = "top"
    /\ errorCount = 0
    /\ toolCalls = 0
    /\ messages = <<Msg("system", "")>>
    /\ InitNoStream
    /\ InitNoPath
    /\ InitNoLib

NextSession == LogMessage \/ LogThinking \/ LogToolCall \/ SessionClose

SpecSession == InitSession /\ [][NextSession]_vars

\* ------------------------------------------------------ instruction manager
\* filepath.Abs in the working directory of the process
Abs(path) == IF IsAbs(path) THEN Clean(path) ELSE Join(WorkDir, path)

\* os.UserConfigDir(), or "" when it fails
ConfigDirs == {<<>>, <<"/", ".", "w">>}

\* Manager.LoadInstructionsFromFile(path); the content of a file is written
\* as the absolute path of the file, and os.ReadFile fails for a path that
\* is not a readable file
LoadInstructionsFromFile ==
    /\ im.calls < MaxLoads
    /\ \E path \in Candidates, configDir \in ConfigDirs, readable \in BOOLEAN :
          LET absPath == Abs(path)
              workspaceAbs == Abs(im.workspaceRoot)
              isWorkspace == HasPrefix(absPath, workspaceAbs)
              isUserConfig == configDir # <<>> /\ HasPrefix(absPath, configDir)
          IN im' = IF ~isWorkspace /\ ~isUserConfig
                   THEN [im EXCEPT !.path = path, !.ret = "err",
                                   !.calls = @ + 1]
                   ELSE IF ~readable
                   THEN [im EXCEPT !.path = path, !.ret = "err",
                                   !.calls = @ + 1]
                   ELSE [im EXCEPT !.path = path, !.ret = "nil",
                                   !.calls = @ + 1,
                                   !.sessionPrompt = absPath]
    /\ UNCHANGED <<engineVars, streamVars, pathVars, storeVars, bm, ctArgs,
                   ctRet, memVars, sess, lookup>>

\* Manager.SetSessionInstructions, before the loads
SetSessionInstructions ==
    /\ im.calls < MaxLoads
    /\ \E instructions \in {<<>>, <<"w">>} :
          im' = [im EXCEPT !.sessionPrompt = instructions]
    /\ UNCHANGED <<engineVars, streamVars, pathVars, storeVars, bm, ctArgs,
                   ctRet, memVars, sess, lookup>>

\* the instruction manager of a workspace given as the engine is given it
InitInstructions ==
    /\ InitEngine
    /\ goal \in Goals /\ model \in Models /\ ~testMode
    /\ pc = "top"
    /\ errorCount = 0
    /\ toolCalls = 0
    /\ messages = <<Msg("system", "")>>
    /\ InitNoStream
    /\ InitNoPath
    /\ InitStore
    /\ bm = NewBudgetManager(DefaultBudgetConfig)
    /\ NoTranscriptCall
    /\ NewManager(5)
    /\ NewSession /\ NoLookup
    /\ \E workspaceRoot \in Roots : NewInstructions(workspaceRoot)

NextInstructions == SetSessionInstructions \/ LoadInstructionsFromFile

SpecInstructions == InitInstructions /\ [][NextInstructions]_vars

\* ---------------------------------------------------- LookupModelContextSize
\* A model name is a sequence of parts, each part standing for the characters
\* it shows; no part is the beginning of another, so that one name begins
\* with another exactly when its parts do.
NameParts == {"llama", "LLAMA", "gemini", "2", "3", ".1", "-x", ":", "cloud"}

\* strings.ToLower
ToLower(name) ==
    [i \in 1..Len(name) |-> IF name[i] = "LLAMA" THEN "llama" ELSE name[i]]

\* knownModelContextSizes: its entries gemini, llama3, llama3.1 and llama2
knownModelContextSizes ==
    {[pattern |-> <<"gemini">>, size |-> 1048576],
     [pattern |-> <<"llama", "3">>, size |-> 8192],
     [pattern |-> <<"llama", "3", ".1">>, size |-> 131072],
     [pattern |-> <<"llama", "2">>, size |-> 4096]}

\* strings.Index(name, ":"), counted from 0, and -1 without a colon
ColonIndex(name) ==
    IF \E i \in 1..Len(name) : name[i] = ":"
    THEN (CHOOSE i \in 1..Len(name) :
             name[i] = ":" /\ \A j \in 1..(i - 1) : name[j] # ":") - 1
    ELSE -1

\* the model name without its :tag suffix, in lower case
BaseName(name) ==
    ToLower(IF ColonIndex(name) > 0 THEN SubSeq(name, 1, ColonIndex(name))
            ELSE name)

\* strings.Contains(strings.ToLower(model), ":cloud")
HasCloudTag(name) ==
    \E i \in 1..(Len(name) - 1) : name[i] = ":" /\ name[i + 1] = "cloud"

\* LookupModelContextSize(model): the sizes the call can return. The prefix
\* match ranges over the map, whose iteration order is not specified, and
\* returns at the first pattern met that is a prefix.
LookupModelContextSize(name) ==
    LET baseName == BaseName(name)
        exact == {e \in knownModelContextSizes : e.pattern = baseName}
        prefixed == {e \in knownModelContextSizes :
                        HasPrefix(baseName, e.pattern)}
    IN IF name = <<>> THEN {8192}
       ELSE IF exact # {} THEN {e.size : e \in exact}
       ELSE IF prefixed # {} THEN {e.size : e \in prefixed}
       ELSE IF HasCloudTag(name) THEN {131072}
       ELSE {8192}

\* one call of LookupModelContextSize
Lookup ==
    /\ ~lookup.called
    /\ \E size \in LookupModelContextSize(lookup.model) :
          lookup' = [lookup EXCEPT !.called = TRUE, !.size = size]
    /\ UNCHANGED <<engineVars, streamVars, pathVars, storeVars, bm, ctArgs,
                   ctRet, memVars, sess, im>>

\* a model name about to be looked up
InitLookup ==
    /\ InitEngine
    /\ goal \in Goals /\ model \in Models /\ ~testMode
    /\ pc = "top"
    /\ errorCount = 0
    /\ toolCalls = 0
    /\ messages = <<Msg("system", "")>>
    /\ InitNoStream
    /\ InitNoPath
    /\ InitStore
    /\ bm = NewBudgetManager(DefaultBudgetConfig)
    /\ NoTranscriptCall
    /\ NewManager(5)
    /\ NewSession /\ NoInstructions
    /\ \E name \in UNION {[1..n -> NameParts] : n \in 0..MaxNameLen} :
          lookup = [called |-> FALSE, model |-> name, size |-> 0]

NextLookup == Lookup

SpecLookup == InitLookup /\ [][NextLookup]_vars

\* ================================================================= claims

\* C27: however a BudgetManager was constructed and whatever SetNumCtx and
\* UpdateMetrics calls followed, its state has
\* 0 < low_watermark < high_watermark <= num_ctx, and needs_compaction is true
\* exactly when last_prompt_tokens >= high_watermark.
C27_WatermarksOrdered ==
    LET st == GetState(bm)
    IN /\ 0 < st.LowWatermark
       /\ st.LowWatermark < st.HighWatermark
       /\ st.HighWatermark <= st.NumCtx
       /\ st.NeedsCompaction <=> (st.LastPromptTokens >= st.HighWatermark)
       /\ ManagerNeedsCompaction(bm) <=> (st.LastPromptTokens >= st.HighWatermark)

\* C28: after construction from any configuration the effective configuration
\* has num_ctx > 0, 0 < high_ratio <= 1.0, 0 < low_ratio < high_ratio,
\* reserve_output > 0 and max_transcript_turns > 0.
C28_ConfigClamped ==
    bm.calls = 0 =>
        /\ bm.config.NumCtx > 0
        /\ 0 < bm.config.HighWatermarkRatio /\ bm.config.HighWatermarkRatio <= 100
        /\ 0 < bm.config.LowWatermarkRatio
        /\ bm.config.LowWatermarkRatio < bm.config.HighWatermarkRatio
        /\ bm.config.ReserveOutputTokens > 0
        /\ bm.config.MaxTranscriptTurns > 0

\* the transcript handed to CompactTranscript fits: it has at most
\* 2*max_turns messages, not counting a system message that is kept
Fits ==
    Len(ctArgs.messages) <=
        2 * bm.config.MaxTranscriptTurns
        + (IF ctArgs.keepSystemMsg /\ Len(ctArgs.messages) > 0
              /\ ctArgs.messages[1].Role = "system" THEN 1 ELSE 0)

KeepsSystem ==
    /\ ctArgs.keepSystemMsg
    /\ Len(ctArgs.messages) > 0
    /\ ctArgs.messages[1].Role = "system"

\* C29: compact_transcript returns the list unchanged with an empty summary
\* when it fits; otherwise, when keep_system is set and msgs[0] is the system
\* message, result[0] is that message unchanged, the rest of the result is
\* exactly the last 2*max_turns input messages in their order, and the
\* summary reports the number of removed messages.
C29_TranscriptCompacted ==
    ctRet.called =>
        /\ Fits => (ctRet.messages = ctArgs.messages /\ ctRet.summary = <<>>)
        /\ (~Fits /\ KeepsSystem) =>
              LET n == Len(ctArgs.messages)
                  k == 2 * bm.config.MaxTranscriptTurns
              IN /\ Len(ctRet.messages) = k + 1
                 /\ ctRet.messages[1] = ctArgs.messages[1]
                 /\ Tail(ctRet.messages) = SubSeq(ctArgs.messages, n - k + 1, n)
                 /\ Len(ctRet.summary) >= 1
                 /\ ctRet.summary[1] = HeaderLine(n - Len(ctRet.messages))

C29_Witness ==
    /\ ctRet.called /\ ~Fits /\ KeepsSystem
    /\ Len(ctRet.summary) > 1

\* number of "cycle" entries of the log after its last entry in stops
RECURSIVE CyclesSince(_, _)
CyclesSince(log, stops) ==
    IF Len(log) = 0 \/ log[Len(log)] \in stops THEN 0
    ELSE CyclesSince(SubSeq(log, 1, Len(log) - 1), stops)
         + (IF log[Len(log)] = "cycle" THEN 1 ELSE 0)

\* an OnCycleComplete call whose running count is Count(log with the call):
\* the call goes on to update and return true exactly when the count is the
\* update interval, the update saves with reason periodic, and a call that
\* does not update has returned false and saved nothing
CycleCallsUpdateAt(stops) ==
    /\ (mmCall.pc = "idle" /\ mmLog' = Append(mmLog, "cycle")) =>
          /\ (mmCall'.pc = "update") <=>
                 (CyclesSince(mmLog', stops) = mm.UpdateInterval)
          /\ mmCall'.pc = "idle" => (~mmCall'.ret /\ mmFile' = mmFile)
    /\ (mmCall.pc = "update" /\ mmCall'.pc = "idle") =>
          /\ mmCall'.ret
          /\ mmFile'.UpdateReason = "periodic"
          /\ mmLog' = Append(mmLog, "periodic")

\* C30: on_cycle_complete returns true and saves with reason periodic exactly
\* on the calls at which the running count of completed cycles reaches
\* update_interval, and returns false without saving on every other call, for
\* any interleaving with on_checkpoint, on_significant_failure and explicit
\* updates - the cycles being counted from the last periodic save.
C30_PeriodicAtInterval == [][CycleCallsUpdateAt({"periodic"})]_vars

\* C30, amended: the cycles are counted from the last save of any reason
\* (periodic, checkpoint, failure, explicit update, reset).
C30_PeriodicAtIntervalSinceSave ==
    [][CycleCallsUpdateAt({"periodic", "checkpoint", "failure: tests",
                           "manual", "reset"})]_vars

C30_Witness ==
    /\ mmCall.ret /\ mmCall.pc = "idle"
    /\ Len(mmLog) >= 4
    /\ mmLog[Len(mmLog)] = "periodic"
    /\ mmLog[1] = "cycle" /\ mmLog[2] = "checkpoint"
    /\ mm.UpdateInterval = 2

\* C31: closing a session log is idempotent - a second or later close on a
\* closed session changes nothing and reports no error.
C31_CloseIdempotent ==
    [][(sess'.closes = sess.closes + 1 /\ sess.closes >= 1) =>
          /\ sess'.ret = "nil"
          /\ sess'.open = sess.open
          /\ sess'.lines = sess.lines]_vars

\* the absolute path p is the directory dir or lies below it
Inside(p, dir) == p = dir \/ HasPrefix(p, dir \o <<"/">>)

\* C32: load_from_file(path) fails and leaves the session instructions
\* unchanged for every path that lies neither inside the workspace directory
\* nor inside the user config directory.
C32_LoadOnlyFromAllowedDirs ==
    [][(im'.calls = im.calls + 1
        /\ ~Inside(Abs(im'.path), <<"/", "w">>)
        /\ ~Inside(Abs(im'.path), <<"/", ".", "w">>)) =>
          (im'.ret = "err" /\ im'.sessionPrompt = im.sessionPrompt)]_vars

\* the table entries whose key is a prefix of the name, and the longest key
PrefixEntries(name) ==
    {e \in knownModelContextSizes : HasPrefix(name, e.pattern)}

LongestPrefixEntry(name) ==
    CHOOSE e \in PrefixEntries(name) :
        \A f \in PrefixEntries(name) : Len(f.pattern) <= Len(e.pattern)

\* C33: the lookup is a function of the model name - after lowercasing and
\* stripping the :tag suffix it returns the exact table entry when one
\* exists, otherwise the entry of the longest table key that is a prefix of
\* the name, and the :cloud and default sizes only when no key is a prefix.
C33_LongestPrefixLookup ==
    (lookup.called /\ lookup.model # <<>>) =>
        LET name == BaseName(lookup.model)
        IN lookup.size =
              IF PrefixEntries(name) # {} THEN LongestPrefixEntry(name).size
              ELSE IF HasCloudTag(lookup.model) THEN 131072
              ELSE 8192

\* C34: at the end of every cycle that ran to completion (the worker is in
\* the pause that ends the cycle) the conversation holds at most
\* 2*max_turns+1 messages.
C34_ConversationBounded ==
    pc = "cycleSleep" => Len(messages) <= 2 * MaxTurns + 1

\* the conversation that the end of the cycle hands to trimContext
BeforeTrim ==
    IF toolCalls > 0 /\ Len(toolResults) > 0
    THEN Append(messages, Msg("tools", "")) ELSE messages

\* the messages of new behind index 0 are the last messages of old, unchanged
KeptIdentical(old, new) ==
    \A i \in 2..Len(new) :
        /\ Len(old) - Len(new) + i >= 1
        /\ new[i] = old[Len(old) - Len(new) + i]

\* C35: trimming and compaction only remove old messages and rebuild index 0 -
\* every other message that remains in the conversation afterwards is
\* identical to the message that was appended, including the tool_calls of
\* assistant messages.
C35_KeptMessagesIdentical ==
    [][/\ (pc = "execute" /\ pc' = "cycleSleep") =>
             KeptIdentical(BeforeTrim, messages')
       /\ (pc = "streaming" /\ pc' = "execute") =>
             KeptIdentical(messages, SubSeq(messages', 1, Len(messages') - 1))
      ]_vars

\* C36: no update is ever sent on the update channel after it has been
\* closed - a rollback, checkpoint or force_compact invoked after, or
\* concurrently with, the exit of the run loop never performs a send on the
\* closed channel (which would panic).
C36_NoSendAfterClose == closeCount > 0 => ~crashed

\* C39: workspace-changing operations are mutually exclusive - a rollback
\* (git reset --hard) or a checkpoint (git commit) requested from the UI is
\* never executing when a tool call of the current cycle executes.
C39_ToolsExcludeRollback ==
    [][(pc = "execute" /\ toolIdx' = toolIdx + 1) =>
          opPc \notin {"rbReset", "cpCommit"}]_vars

\* C1: cancel_current never terminates the engine - the run loop leaves only
\* after stop (or when test mode reached its cycle limit).
C1_OnlyStopEndsLoop ==
    pc \in {"deferred", "exited"} =>
        (stopCalled \/ (testMode /\ cycleCount >= maxCycles))

\* C2: after stop has been called the loop starts no new cycle - every pass
\* through the top of the loop made after stop leaves the loop.
C2_StopStartsNoCycle ==
    [][(stopCalled /\ pc = "top" /\ pc' # pc) => pc' = "deferred"]_vars

\* C3: while a cancel_current is outstanding (the context it cancelled has not
\* been replaced), the next update the worker emits is Observing and the
\* consecutive-error counter is then zero.
C3_CancelThenObserving ==
    [][(ctxDone /\ ~stopCalled /\ pc' # pc /\ Len(updates') > Len(updates))
         => (updates'[Len(updates) + 1].state = "OBSERVING" /\ errorCount' = 0)]_vars

\* C4: the updates received followed by the updates still buffered are in
\* strictly increasing emission order (a subsequence of what was emitted), an
\* update sent to a full channel is dropped and leaves the buffer untouched,
\* and an update sent to a channel with room is appended at the back.
BusOrdered ==
    LET all == received \o updates
    IN /\ \A i \in 1..Len(all) : all[i].seq \in 1..emitSeq
       /\ \A i \in 1..(Len(all) - 1) : all[i].seq < all[i + 1].seq

BusDropNewest ==
    emitSeq' = emitSeq + 1 =>
        /\ received' = received
        /\ Len(updates) = UpdatesCap => updates' = updates
        /\ Len(updates) < UpdatesCap =>
             /\ Len(updates') = Len(updates) + 1
             /\ SubSeq(updates', 1, Len(updates)) = updates
             /\ updates'[Len(updates')].seq = emitSeq'

C4_BusOrderAndDrop == []BusOrdered /\ [][BusDropNewest]_vars

\* C4 witness: the consumer received an update emitted after a dropped one
C4_Witness ==
    \E i \in 1..(Len(received) - 1) : received[i + 1].seq > received[i].seq + 1

\* C5: the update channel is closed at most once, and it is closed exactly
\* when the run loop has exited.
C5_ClosedOnceAtExit ==
    /\ closeCount <= 1
    /\ closeCount = 1 <=> pc = "exited"

\* C5 witness: the loop exited through test-mode completion and closed
C5_Witness ==
    pc = "exited" /\ closeCount = 1 /\ ~stopCalled /\ testMode /\ ~ctxDone

\* C6: handling a rate-limit error pauses the engine and leaves the
\* consecutive-error counter unchanged.
C6_RateLimitNotCounted ==
    [][(pc = "handleErr" /\ pc' # pc /\ ~ctxDone /\ IsRateLimit(err))
         => (paused' /\ errorCount' = errorCount)]_vars

\* C7: a generic error increments the counter n; at n >= 3 the engine pauses,
\* and then at least three generic errors happened since the last successful
\* cycle; below 3 it sleeps n*n seconds; a successful cycle resets n to zero.
C7_ThreeGenericErrorsPause ==
    /\ [][(pc = "handleErr" /\ pc' # pc /\ ~ctxDone /\ ~IsRateLimit(err))
            => /\ errorCount' = errorCount + 1
               /\ errorCount' >= ErrorThreshold =>
                    (paused' /\ pc' = "top" /\ genericRun' >= ErrorThreshold)
               /\ errorCount' < ErrorThreshold =>
                    (pc' = "backoffSleep"
                     /\ sleepFor' = errorCount' * errorCount' * 1000)]_vars
    /\ [][(pc = "success" /\ pc' # pc) => errorCount' = 0]_vars

\* C8: while a UI call is inside compactContext, working on its copy of the
\* conversation, the cycle worker does not change the conversation (the two
\* accesses are serialised by the engine lock).
C8_CompactSerialised == uiPc = "compacting" => msgs = messages

\* C9 (as stated): while the paused flag is set the worker takes no step of a
\* cycle - it starts none, appends no observation, sends no request, runs no
\* tool.
C9_PausedRunsNoCycle ==
    [][(paused /\ pc' # pc)
         => pc \notin {"cycle", "observe", "decide", "streaming", "execute"}]_vars

\* C9 (amended): a pause check that reads paused = true starts no cycle: the
\* loop sleeps 500 ms and returns to the top without touching the
\* conversation; a check that reads false goes on to the throttle; and a cycle
\* is entered only from the throttle that follows such a check.
C9_PauseCheckGatesCycle ==
    /\ [][(pc = "checkPaused" /\ pc' # pc)
            => IF paused
               THEN pc' = "pauseSleep" /\ sleepFor' = 500 /\ messages' = messages
               ELSE pc' = "throttle"]_vars
    /\ [][(pc = "pauseSleep" /\ pc' # pc)
            => (pc' = "top" /\ messages' = messages)]_vars
    /\ [][(pc' = "throttle" /\ pc' # pc) => (pc = "checkPaused" /\ ~paused)]_vars
    /\ [][(pc' = "cycle" /\ pc' # pc) => pc \in {"throttle", "throttleSleep"}]_vars

\* C9 witness: the loop is polling while paused
C9_Witness == pc = "pauseSleep" /\ paused /\ sleepFor = 500 /\ goal # ""

\* rank of a cycle step in the order claimed by C10
ClaimedRank(p) ==
    CASE p = "observe" -> 1
      [] p = "decide" -> 2
      [] p = "tool" -> 3
      [] p = "results" -> 4
      [] p = "compact" -> 5
      [] p = "trim" -> 5
      [] p = "bookkeep" -> 6

\* rank of a cycle step in the order of runCycle
CodeRank(p) ==
    CASE p = "observe" -> 1
      [] p = "decide" -> 2
      [] p = "compact" -> 3
      [] p = "tool" -> 4
      [] p = "results" -> 5
      [] p = "trim" -> 6
      [] p = "bookkeep" -> 7

\* C10 (as stated): the steps of a cycle are in the order Observe, Decide,
\* Execute, compaction, bookkeeping; watermark compaction comes after the
\* tool calls and their outputs.
C10_CompactAfterExecute ==
    \A i \in 1..(Len(phaseLog) - 1) :
        ClaimedRank(phaseLog[i]) <= ClaimedRank(phaseLog[i + 1])

\* C10 (amended): the steps of a cycle are in the order Observe, Decide,
\* watermark compaction, tool calls, tool outputs appended, trim, bookkeeping,
\* each step but the tool calls at most once, and a cycle begins with Observe
\* only after the previous one has ended.
C10_CycleOrder ==
    /\ \A i \in 1..(Len(phaseLog) - 1) :
          /\ CodeRank(phaseLog[i]) <= CodeRank(phaseLog[i + 1])
          /\ phaseLog[i] = phaseLog[i + 1] => phaseLog[i] = "tool"
    /\ phaseLog # <<>> => phaseLog[1] = "observe"
    /\ pc \in {"top", "checkPaused", "throttle", "cycle"} => phaseLog = <<>>

\* C10 witness: a cycle ran every step, compaction before its tool call
C10_Witness ==
    /\ pc = "cycleSleep"
    /\ phaseLog = <<"observe", "decide", "compact", "tool", "results", "trim",
                    "bookkeep">>

\* C11: the tool calls of an assistant message are executed one at a time in
\* declaration order - the results collected so far are those of calls
\* 1..k, in that order, k+1 being the next call to execute - and the
\* follow-up message appended at the end of the Execute phase lists the
\* outputs of all the calls in that same order.
C11_ToolsInOrder ==
    /\ [](pc = "execute" =>
             /\ Len(toolResults) = toolIdx - 1
             /\ \A i \in 1..Len(toolResults) : toolResults[i].call = i)
    /\ [][(pc = "execute" /\ pc' = "cycleSleep" /\ toolCalls > 0)
            => /\ messages'[Len(messages')].Role = "tools"
               /\ Len(toolResultsMsg') = toolCalls
               /\ \A i \in 1..toolCalls : toolResultsMsg'[i].call = i]_vars

\* C11 witness: a follow-up message listing the outputs of three tool calls
C11_Witness ==
    /\ pc = "cycleSleep"
    /\ Len(toolResultsMsg) = 3
    /\ toolResultsMsg[1].out # toolResultsMsg[3].out

\* C12: a failing tool call does not fail the cycle: executing a call,
\* whatever its outcome, collects exactly one entry for it, moves on to the
\* next call and leaves the consecutive-error counter and the cycle's error
\* alone; the Execute phase is left only towards the end of the cycle, with
\* one entry per call (the failing ones included) in the follow-up message.
C12_ToolFailureKeepsCycle ==
    /\ [][(pc = "execute" /\ toolIdx' # toolIdx /\ toolIdx <= toolCalls)
            => /\ pc' = "execute"
               /\ toolIdx' = toolIdx + 1
               /\ Len(toolResults') = Len(toolResults) + 1
               /\ toolResults'[Len(toolResults')].call = toolIdx
               /\ errorCount' = errorCount
               /\ err' = err]_vars
    /\ [][(pc = "execute" /\ pc' # pc)
            => /\ pc' = "cycleSleep"
               /\ errorCount' = errorCount
               /\ Len(toolResultsMsg') = toolCalls
               /\ \A i \in 1..toolCalls :
                     Cardinality({j \in 1..Len(toolResultsMsg') :
                                    toolResultsMsg'[j].call = i}) = 1]_vars
    /\ [][(pc = "success" /\ pc' # pc) => errorCount' = 0]_vars

\* C12 witness: a cycle ended normally after a failed call (unknown tool)
\* that was followed by another call
C12_Witness ==
    /\ pc = "cycleSleep"
    /\ Len(toolResultsMsg) >= 2
    /\ toolResultsMsg[1].out = "unknown"
    /\ toolResultsMsg[2].out = "exit"

\* C13: in test mode no cycle is started once the number of completed cycles
\* has reached max_cycles, and a cycle that ended in an error is not counted.
C13_TestModeStopsAtMax ==
    /\ [][(pc = "cycle" /\ pc' # pc)
            => ~(testMode /\ cycleCount >= maxCycles)]_vars
    /\ [][(pc = "handleErr" /\ pc' # pc) => cycleCount' = cycleCount]_vars
    /\ [][(pc = "success" /\ pc' # pc /\ testMode /\ cycleCount' >= maxCycles)
            => pc' = "deferred"]_vars

\* C14: no message of a chat request carries a non-empty thinking field, and
\* the message a decide phase appends to the conversation carries no
\* thinking received during that phase.
C14_ThinkingNeverReused ==
    /\ [](\A i \in 1..Len(request) : request[i].Thinking = "")
    /\ [][(pc = "streaming" /\ pc' = "execute") =>
              messages'[Len(messages')].Thinking = ""]_vars

\* the body is n data lines (content or thinking) followed by one terminal
\* line with done = true
DataThenDone(b) ==
    /\ Len(b) >= 1
    /\ \A i \in 1..Len(b) :
          b[i].kind = "json" /\ (b[i].done <=> i = Len(b))

\* C17: for a stream of n data chunks followed by one terminal chunk (and no
\* cancellation met by the producer) decide receives the chunks in the order
\* they were sent, done is true on exactly one chunk, the last one delivered
\* before the channel is closed, and lastMetrics is the metrics of that
\* terminal chunk.
C17_StreamInOrder ==
    (spc # "none" /\ DataThenDone(respBody) /\ ~cancelSeen) =>
       /\ \A i \in 1..Len(got) :
             /\ got[i].line = i
             /\ got[i].Error = ""
             /\ got[i].Thinking = respBody[i].thinking
             /\ got[i].Done <=> i = Len(respBody)
       /\ streamClosed =>
             /\ Len(sent) = Len(respBody)
             /\ lastMetrics = respBody[Len(respBody)].tokens
             /\ stream = <<>> => Len(got) = Len(respBody)

C17_Witness ==
    /\ DataThenDone(respBody) /\ Len(respBody) = MaxLines
    /\ ~cancelSeen /\ streamClosed /\ stream = <<>>
    /\ Len(got) = MaxLines /\ got[MaxLines].Done
    /\ got[1].Thinking # got[2].Thinking
    /\ lastMetrics = HighWatermark
    /\ pc = "execute"

\* the chunks of h that report a cancellation
CancelChunks(h) == {i \in 1..Len(h) : h[i].Error \in CancelErrors}

LastLine(b) ==
    LET dones == {i \in 1..Len(b) : b[i].kind = "json" /\ b[i].done} IN
    IF dones = {} THEN Len(b)
    ELSE CHOOSE i \in dones : \A j \in dones : i <= j

Reached(p) == IF IsAbs(p) THEN Clean(p) ELSE Clean(WorkDir \o <<"/">> \o p)

\* p is the workspace root or lies under it
InWorkspace(p) ==
    \/ Reached(p) = Reached(root)
    \/ HasPrefix(Reached(p), Reached(root) \o <<"/">>)

\* what the path argument designates: itself when absolute, else the
\* argument taken under the workspace root
Designated(p) == IF IsAbs(p) THEN p ELSE root \o <<"/">> \o p

\* C20: for every tool call that takes a path (fs_list, fs_read, fs_write,
\* fs_patch target, exec cwd) the path that is accessed is the workspace
\* root or lies under it (root followed by the separator as a prefix, after
\* lexical cleaning); a candidate outside is rejected with nothing accessed;
\* and ".", the root itself and "subdir/.." resolve to the root.
C20_PathContained ==
    resolved.called =>
       /\ \A a \in accessed : InWorkspace(a)
       /\ ~InWorkspace(Designated(candidate)) =>
             (~resolved.ok /\ accessed = {})
       /\ candidate \in {<<".">>, Reached(root), <<"w", "/", ".", ".">>} =>
             (resolved.ok /\ Reached(resolved.path) = Reached(root))

\* C21: an Execute (through Registry.Execute) returns a non-nil result with
\* a nil error, or a nil result with a non-nil error, never both non-nil.
C21_ResultOrError ==
    resolved.called => (ret.result <=> ~ret.err)

\* C22: no two backlog items have the same description, and an insert never
\* changes an item that is in the backlog: an insert whose description is
\* already there leaves the backlog as it is, so the retained item keeps the
\* priority of the first insert.
C22_BacklogUnique ==
    /\ [](\A i, j \in 1..Len(backlog) :
             backlog[i].Description = backlog[j].Description => i = j)
    /\ [][/\ \A i \in 1..Len(backlog) :
               \E j \in 1..Len(backlog') : backlog'[j] = backlog[i]
          /\ Len(backlog') <= Len(backlog) + 1
          /\ Len(backlog') = Len(backlog) => backlog' = backlog]_vars

C22_Witness ==
    /\ goal \in Goals
    /\ Len(backlog) = 3
    /\ \E i \in 1..Len(backlog) :
          backlog[i].Description = goal /\ backlog[i].Priority = MaxPriority

C24_OneInProgress ==
    Cardinality({i \in TaskIds : tasks[i].status = "in_progress"}) <= 1

\* C25: for every task of the store, completed_at is set exactly when the
\* status is completed, failed or skipped, and a set_status to one of these
\* sets completed_at to a time not earlier than the previous updated_at.
C25_CompletedAtIffTerminal ==
    /\ [](\A i \in TaskIds : tasks[i] # NoTask =>
             (tasks[i].completedAt # 0 <=>
                tasks[i].status \in {"completed", "failed", "skipped"}))
    /\ [][\A i \in TaskIds :
            (/\ tasks[i] # NoTask /\ tasks'[i].gen = tasks[i].gen
             /\ tasks'[i].status # tasks[i].status
             /\ tasks'[i].status \in {"completed", "failed", "skipped"})
            => tasks'[i].completedAt >= tasks[i].updatedAt]_vars

\* the fields of a task that the file keeps
Fields(t) == [t EXCEPT !.gen = 0]

\* C26: when a mutator returns (and no other mutator is running), the tasks
\* file holds the state of the store: a store loaded from the file has, for
\* every id, a record equal to the one in memory.
C26_SavedOnReturn ==
    [][\A c \in Callers :
          (tpc[c] # "idle" /\ \A d \in Callers : tpc'[d] = "idle") =>
             \A i \in TaskIds :
                Fields(Load(tasksFile')[i]) = Fields(tasks'[i])]_vars

\* C15: once the session is initialised, a conversation that is not empty has
\* the system message at index 0.
C15_IndexZeroSystem ==
    (pc \notin {"new", "init"} /\ Len(messages) > 0)
        => messages[1].Role = "system"

\* C16: a decide phase that ends with needs_compaction() true runs the
\* compactor once: the conversation becomes its transcript compaction with
\* the system message rebuilt (then the assistant message), and exactly one
\* event with reason high_watermark is recorded; when needs_compaction() is
\* false nothing is compacted and no event is recorded. force_compact()
\* records nothing before its last step, which puts the compacted copy
\* behind a rebuilt system message and records exactly one event with reason
\* forced.
C16_CompactsOncePerTrigger ==
    /\ [][(pc = "streaming" /\ pc' = "execute")
            => IF NeedsCompaction(lastPromptTokens')
               THEN /\ compactionEvents' = Append(compactionEvents, "high_watermark")
                    /\ SubSeq(messages', 1, Len(messages') - 1)
                          = CompactedMessages(messages)
               ELSE /\ compactionEvents' = compactionEvents
                    /\ SubSeq(messages', 1, Len(messages') - 1) = messages]_vars
    /\ [][(uiPc' # uiPc /\ uiPc' # "idle")
            => compactionEvents' = compactionEvents]_vars
    /\ [][(uiPc = "cleared" /\ uiPc' = "idle")
            => LET c == CopyRoleContent(CompactTranscript(msgs, TRUE))
               IN /\ compactionEvents' = Append(compactionEvents, "forced")
                  /\ messages'[1] = Msg("system", "")
                  /\ Len(messages') >= Len(c)
                  /\ SubSeq(messages', Len(messages') - Len(c) + 2,
                            Len(messages')) = Tail(c)]_vars

\* C16 witness: a forced compaction and a watermark compaction were recorded,
\* the second having dropped a message from the conversation
C16_Witness ==
    /\ compactionEvents = <<"forced", "high_watermark">>
    /\ pc = "execute"
    /\ "compact" \in {phaseLog[i] : i \in 1..Len(phaseLog)}
    /\ Len(messages) = 2 * MaxTurns + 2


\* C37: the stream producer always terminates and closes the chunk channel,
\* also when the consumer stops reading at the first error chunk or the
\* context is cancelled with chunks undelivered; no producer stays blocked
\* on a send
C37_ProducerTerminates == <>(spc = "closed" /\ streamClosed)


\* C38: with mutators of the task store running concurrently, once all of
\* them have returned the tasks file holds the final set of tasks of the
\* store: no save that finishes later overwrites the file with an older
\* snapshot.
C38_FileIsFinalState ==
    (\A c \in Callers : tpc[c] = "idle") =>
        \A i \in TaskIds : Fields(Load(tasksFile)[i]) = Fields(tasks[i])


\* C40: after the auto-pause on the third consecutive error and a resume,
\* the next generic error is handled as a first error: the run loop backs
\* off for one second and retries, it does not pause again at once.
C40_ErrorAfterResumeIsFirst ==
    [][(/\ pc = "handleErr" /\ pc' # "handleErr"
        /\ ~ctxDone /\ ~IsRateLimit(err)
        /\ errorCount >= ErrorThreshold /\ ~paused)
          => /\ pc' = "backoffSleep"
             /\ sleepFor' = 1000
             /\ ~paused']_vars

====
